---------------------------- MODULE Spec2Model ----------------------------
(***************************************************************************)
(* State-machine model of the synthesis engine of MODULE-BASED-SYNTH:      *)
(* the ADSR envelope (src/src/audio.py), the voice pool and the audio      *)
(* callback (src/src/core.py) and the threads that drive them.             *)
(*                                                                         *)
(* Conventions                                                             *)
(*  - Envelope levels are exact rationals <<num, den>> in lowest terms.    *)
(*  - The stage lengths attack/decay/release of an envelope are held as    *)
(*    the sample counts int(seconds * sample_rate) the code computes from  *)
(*    them, scaled down to a few samples.                                  *)
(*  - Velocities are exact rationals too: v / 127.0 is Rat(v, 127).        *)
(*  - DEBUG.log / print calls are the debug collaborator: no engine state. *)
(***************************************************************************)
EXTENDS Integers, Sequences, FiniteSets, TLC

(***************************************************************************)
(* Bounds of the model.                                                    *)
(***************************************************************************)
\* longest stage (attack, decay, release) of the stand-alone envelope, in samples
MaxStage == 2
\* largest num_samples / frames of one process() call
MaxFrames == 2
\* gate_off is taken only while the level it captures has a denominator of at
\* most MaxDen (repeated release-from-release would refine levels without end)
MaxDen == 4
\* voices in the pool (AUDIO_CONFIG.MAX_VOICES in the code)
MaxVoices == 2
\* MIDI notes are 1..MaxNote
MaxNote == 2
\* cap of the elapsed-sample counter, which the code lets grow without bound
MaxElapsed == 5
\* calls each thread makes into the engine (callback invocations, MIDI events,
\* actions of the control surface)
MaxCalls == 2

\* steps of LFO phase in one cycle
LfoPeriod == 4

\* steps of oscillator phase in one cycle
OscPeriod == 6

\* highest harmonic of the oscillator that is tracked
MaxHarmonic == 3

\* samples an oscillator produces in all
MaxSamples == 5

\* effect slots in STATE.fx_slots
MaxSlots == 2

\* length of the delay line, in samples
DelayLen == 2

\* calls of process_effects
MaxFxCalls == 3

\* samples fed to the delay line on its own
MaxDelayed == 4

\* note_ons of one note not yet answered by a note_off
MaxHeld == 2

(***************************************************************************)
(* State.                                                                  *)
(*   adsr     a stand-alone ADSR object                                    *)
(*   envLast  the last call made on it: [op, frames, from], `from` being   *)
(*            the envelope's state before the call                         *)
(*   rel      observer of the release that follows a gate_off made in      *)
(*            attack, decay or sustain                                     *)
(*   retrig   observer of the first sample produced after a gate_on        *)
(*   peak     observer of the samples produced since a gate_on made in      *)
(*            idle: [on, n, at], n samples so far, the first of level 1.0   *)
(*            at index `at` (-1 while there is none)                        *)
(*   voices   Synthesizer.voices, the pool, in pool order                  *)
(*   Shared   the fields of STATE, the shared configuration, read here     *)
(*   poolLast the last pool operation: [op, note, velocity, voice, stole]  *)
(*   held     the keys down: for each note, the note_ons not yet answered   *)
(*            by a note_off                                                *)
(*   pc       where each thread stands in the code it is running            *)
(*   lock     the holder of Synthesizer.lock, or "free"                     *)
(*   cb       the running or last invocation of _audio_callback:            *)
(*            [status, outdata, result, faulted]                            *)
(*   arg      per thread, the note of the handler it runs or the index of   *)
(*            the voice its loop has reached                                *)
(*   wr       observer of the last write to voices or to STATE:             *)
(*            [thread, target, locked, rendering]                           *)
(*   calls    per thread, the number of calls it has made into the engine   *)
(*   mixIn    [v, gain]: per voice, whether it is active and the constant    *)
(*            level of the buffer its process() returns to the next         *)
(*            callback; and STATE.master_gain                               *)
(*   mixOut   the mix of the last callback: [done, count, pre, post]        *)
(*   chainFlags  STATE.chain_enabled and STATE.chain_bypass of the voice     *)
(*            stages: [enabled, bypass]                                     *)
(*   chainOut the output of the last Voice.process as the stages that       *)
(*            shaped it, in order: [done, sig]                              *)
(*   lfo      the LFO object: [enabled, bypassed, phase, depth, targets],    *)
(*            phase in steps of 1/LfoPeriod of a cycle, targets the dict in  *)
(*            insertion order as a sequence of [name, base, type]           *)
(*   lfoCfg   the attributes of STATE the LFO can reach, by name            *)
(*   lfoLast  the last LFO call: [op, prev, name, raised, wrote], prev the   *)
(*            call before it if that was unbypass or remove_target          *)
(*   osc      one Oscillator: [phase, harmonics_phases], phases in steps of  *)
(*            1/OscPeriod of a cycle                                        *)
(*   oscOut   what the oscillator produced since construction: [calls, buf], *)
(*            calls the <<samples, harmonics>> of each generate, buf the     *)
(*            samples of all buffers one after the other                    *)
(*   stream   the output stream: "running", "stopped" by stop(), or "failed"  *)
(*            when start() could not open or start it                       *)
(*   fx       the effects chain: [slots, delay_buffer, delay_index, calls],  *)
(*            slots the STATE.fx_slots as [type, depth, mix]                *)
(*   fxOut    the last process_effects: [done, signal, trace, ret], trace    *)
(*            the [type, mix, dry, wet, out] of each slot in list order     *)
(*   filt     one Filter: [cutoff, resonance, filter_type, steepness]        *)
(*   filtLast the last Filter call: [op, raised, inlen, outlen, stages]      *)
(*   dly      the delay line on its own: [buffer, index, written, outputs], *)
(*            written and outputs the values stored and returned so far,    *)
(*            in the order processed                                        *)
(*   stateAdsr  STATE.adsr: [attack, decay, sustain, release]                *)
(***************************************************************************)
VARIABLES adsr, envLast, rel, retrig, peak, voices, Shared, poolLast, pc, lock, cb, arg, wr, calls,
          mixIn, mixOut, chainFlags, chainOut,
          lfo, lfoCfg, lfoLast, osc, oscOut, fx, fxOut, stream,
          filt, filtLast, dly, stateAdsr, held

envVars == <<adsr, envLast, rel, retrig, peak>>

poolVars == <<voices, Shared, poolLast, held>>

thrVars == <<pc, lock, cb, arg, wr, calls, stream>>

mixVars == <<mixIn, mixOut>>

chainVars == <<chainFlags, chainOut>>

lfoVars == <<lfo, lfoCfg, lfoLast>>

oscVars == <<osc, oscOut>>

fxVars == <<fx, fxOut>>

filtVars == <<filt, filtLast>>

dlyVars == <<dly>>

cfgVars == <<stateAdsr>>

\* the state of the signal-processing parts explored on their own
dspVars == <<mixVars, chainVars, lfoVars, oscVars, fxVars, filtVars, dlyVars, cfgVars>>

\* everything but one of the parts
notMix == <<envVars, poolVars, thrVars, chainVars, lfoVars, oscVars, fxVars, filtVars, dlyVars, cfgVars>>

notChain == <<envVars, poolVars, thrVars, mixVars, lfoVars, oscVars, fxVars, filtVars, dlyVars, cfgVars>>

notLfo == <<envVars, poolVars, thrVars, mixVars, chainVars, oscVars, fxVars, filtVars, dlyVars, cfgVars>>

notOsc == <<envVars, poolVars, thrVars, mixVars, chainVars, lfoVars, fxVars, filtVars, dlyVars, cfgVars>>

notFx == <<envVars, poolVars, thrVars, mixVars, chainVars, lfoVars, oscVars, filtVars, dlyVars, cfgVars>>

notFilt == <<envVars, poolVars, thrVars, mixVars, chainVars, lfoVars, oscVars, fxVars, dlyVars, cfgVars>>

notDly == <<envVars, poolVars, thrVars, mixVars, chainVars, lfoVars, oscVars, fxVars, filtVars, cfgVars>>

notCfg == <<envVars, poolVars, thrVars, mixVars, chainVars, lfoVars, oscVars, fxVars, filtVars, dlyVars>>

vars == <<envVars, poolVars, thrVars, dspVars>>

(***************************************************************************)
(* Exact rationals for envelope levels.                                    *)
(***************************************************************************)
RECURSIVE GCD(_, _)
GCD(a, b) == IF b = 0 THEN a ELSE GCD(b, a % b)

Rat(n, d) == IF n = 0 THEN <<0, 1>> ELSE <<n \div GCD(n, d), d \div GCD(n, d)>>

RZero == <<0, 1>>

ROne == <<1, 1>>

RHalf == <<1, 2>>

RMul(x, y) == Rat(x[1] * y[1], x[2] * y[2])

RAdd(x, y) == Rat(x[1] * y[2] + y[1] * x[2], x[2] * y[2])

RSub(x, y) == Rat(x[1] * y[2] - y[1] * x[2], x[2] * y[2])

RLe(x, y) == x[1] * y[2] <= y[1] * x[2]

RLt(x, y) == x[1] * y[2] < y[1] * x[2]

(***************************************************************************)
(* ADSR (src/src/audio.py).                                                *)
(***************************************************************************)
EnvStates == {"idle", "attack", "decay", "sustain", "release"}

\* ADSR.__init__ with the given stage lengths (samples) and sustain level
NewADSR(a, d, s, r) ==
    [attack |-> a, decay |-> d, sustain |-> s, release |-> r,
     state |-> "idle", current_level |-> RZero, release_level |-> RZero,
     elapsed_samples |-> 0]

\* ADSR.gate_on
gate_on(e) == [e EXCEPT !.state = "attack", !.elapsed_samples = 0]

\* gate_off as it would be if the release always started from the sustain level
gate_off_FromSustain(e) ==
    IF e.state # "idle"
    THEN [e EXCEPT !.state = "release",
                   !.release_level = e.sustain,
                   !.elapsed_samples = 0]
    ELSE e

\* ADSR.gate_off
gate_off(e) ==
    IF e.state # "idle"
    THEN [e EXCEPT !.state = "release",
                   !.release_level = e.current_level,
                   !.elapsed_samples = 0]
    ELSE e

\* bound of the model: gate_off may capture this envelope's level
CanGateOff(e) == e.state = "idle" \/ e.current_level[2] <= MaxDen

\* bound of the model: process(n) keeps the elapsed-sample counter within MaxElapsed
CanProcess(e, n) == e.elapsed_samples + n <= MaxElapsed

\* the stage branch as it would be if sustain held the level decay ended on
EnvStage_SustainKeepsLevel(e) ==
    CASE e.state = "idle" -> [e EXCEPT !.current_level = RZero]
      [] e.state = "attack" ->
            IF e.elapsed_samples >= e.attack
            THEN [e EXCEPT !.state = "decay", !.elapsed_samples = 0]
            ELSE [e EXCEPT !.current_level = Rat(e.elapsed_samples, e.attack)]
      [] e.state = "decay" ->
            IF e.elapsed_samples >= e.decay
            THEN [e EXCEPT !.state = "sustain"]
            ELSE [e EXCEPT !.current_level =
                     RAdd(ROne, RMul(RSub(e.sustain, ROne),
                                     Rat(e.elapsed_samples, e.decay)))]
      [] e.state = "sustain" -> e
      [] e.state = "release" ->
            IF e.elapsed_samples >= e.release
            THEN [e EXCEPT !.state = "idle", !.current_level = RZero]
            ELSE [e EXCEPT !.current_level =
                     RMul(e.release_level,
                          RSub(ROne, Rat(e.elapsed_samples, e.release)))]

\* the stage branch as it would be if sustain timed out into release
EnvStage_SustainTimesOut(e) ==
    CASE e.state = "idle" -> [e EXCEPT !.current_level = RZero]
      [] e.state = "attack" ->
            IF e.elapsed_samples >= e.attack
            THEN [e EXCEPT !.state = "decay", !.elapsed_samples = 0]
            ELSE [e EXCEPT !.current_level = Rat(e.elapsed_samples, e.attack)]
      [] e.state = "decay" ->
            IF e.elapsed_samples >= e.decay
            THEN [e EXCEPT !.state = "sustain"]
            ELSE [e EXCEPT !.current_level =
                     RAdd(ROne, RMul(RSub(e.sustain, ROne),
                                     Rat(e.elapsed_samples, e.decay)))]
      [] e.state = "sustain" ->
            IF e.elapsed_samples >= e.decay + 1
            THEN [e EXCEPT !.state = "release", !.release_level = e.current_level,
                           !.elapsed_samples = 0]
            ELSE [e EXCEPT !.current_level = e.sustain]
      [] e.state = "release" ->
            IF e.elapsed_samples >= e.release
            THEN [e EXCEPT !.state = "idle", !.current_level = RZero]
            ELSE [e EXCEPT !.current_level =
                     RMul(e.release_level,
                          RSub(ROne, Rat(e.elapsed_samples, e.release)))]

\* the stage branch of one iteration of the loop of ADSR.process
\* (everything but the trailing elapsed_samples += 1)
EnvStage(e) ==
    CASE e.state = "idle" -> [e EXCEPT !.current_level = RZero]
      [] e.state = "attack" ->
            IF e.elapsed_samples >= e.attack
            THEN [e EXCEPT !.state = "decay", !.elapsed_samples = 0]
            ELSE [e EXCEPT !.current_level = Rat(e.elapsed_samples, e.attack)]
      [] e.state = "decay" ->
            IF e.elapsed_samples >= e.decay
            THEN [e EXCEPT !.state = "sustain"]
            ELSE [e EXCEPT !.current_level =
                     RAdd(ROne, RMul(RSub(e.sustain, ROne),
                                     Rat(e.elapsed_samples, e.decay)))]
      [] e.state = "sustain" -> [e EXCEPT !.current_level = e.sustain]
      [] e.state = "release" ->
            IF e.elapsed_samples >= e.release
            THEN [e EXCEPT !.state = "idle", !.current_level = RZero]
            ELSE [e EXCEPT !.current_level =
                     RMul(e.release_level,
                          RSub(ROne, Rat(e.elapsed_samples, e.release)))]

\* one iteration of the loop of ADSR.process: output[i] is the new current_level
EnvProcessSample(e) ==
    LET s == EnvStage(e) IN [s EXCEPT !.elapsed_samples = s.elapsed_samples + 1]

\* the envelope after ADSR.process(n)
RECURSIVE EnvProcess(_, _)
EnvProcess(e, n) == IF n = 0 THEN e ELSE EnvProcess(EnvProcessSample(e), n - 1)

\* the buffer ADSR.process(n) returns
RECURSIVE EnvOutput(_, _)
EnvOutput(e, n) ==
    IF n = 0 THEN <<>>
    ELSE <<EnvProcessSample(e).current_level>> \o EnvOutput(EnvProcessSample(e), n - 1)

(***************************************************************************)
(* Voice and Synthesizer (src/src/core.py).                                *)
(***************************************************************************)
\* Python's None, as a note
None == -1

Notes == 1..MaxNote

\* MIDI note-on velocities
Velocities == {100}

\* ADSR(): the defaults of ADSR.__init__ (sustain 0.5), the stage lengths scaled
\* to one sample of attack, one of decay and MaxStage of release
DefaultADSR == NewADSR(1, 1, RHalf, MaxStage)

\* the length of a sequencer step in samples (Voice.step_duration), scaled
StepDuration == MaxStage + MaxFrames + 1

\* Voice.__init__
NewVoice ==
    [note |-> None, velocity |-> RZero, active |-> FALSE, adsr |-> DefaultADSR,
     sequencer_step |-> 0, sequencer_time |-> 0, step_duration |-> StepDuration]

\* Voice.reset
VoiceReset(v) ==
    [v EXCEPT !.note = None, !.velocity = RZero, !.active = FALSE,
              !.adsr = gate_off(v.adsr)]

\* Voice.process, the sequencer block: the voice after it
VoiceSequencer(v, frames, S) ==
    LET t == v.sequencer_time + frames
        step == (v.sequencer_step + 1) % Len(S.sequencer_notes)
    IN  IF t >= v.step_duration
        THEN [v EXCEPT !.sequencer_time = 0,
                       !.sequencer_step = step,
                       !.note = S.sequencer_notes[step + 1],
                       !.velocity = Rat(4, 5),
                       !.adsr = gate_on(v.adsr)]
        ELSE IF 10 * t >= 8 * v.step_duration
        THEN [v EXCEPT !.sequencer_time = t, !.adsr = gate_off(v.adsr)]
        ELSE [v EXCEPT !.sequencer_time = t]

\* the end of Voice.process as it would be without the deactivation
VoiceChain_NoDeactivate(v, frames, S) ==
    IF v.note = None THEN v
    ELSE IF S.chain_enabled.envelope /\ ~S.chain_bypass.envelope
         THEN [v EXCEPT !.adsr = EnvProcess(v.adsr, frames)]
         ELSE v

\* Voice.process, from the frequency computation to the end: the envelope stage
\* and the deactivation (the other stages act on the output buffer alone)
VoiceChain(v, frames, S) ==
    IF v.note = None THEN v
    ELSE LET w == IF S.chain_enabled.envelope /\ ~S.chain_bypass.envelope
                  THEN [v EXCEPT !.adsr = EnvProcess(v.adsr, frames)]
                  ELSE v
         IN  IF w.adsr.state = "idle" THEN [w EXCEPT !.active = FALSE] ELSE w

\* whether the sequencer drives the voices
SequencerOn(S) == S.input_source = "sequencer" /\ S.sequencer_enabled

\* Voice.process: the voice after it
VoiceProcess(v, frames, S) ==
    IF ~v.active /\ v.adsr.state = "idle" THEN v
    ELSE IF SequencerOn(S)
    THEN IF Len(S.sequencer_notes) = 0 \/ S.sequencer_notes[1] = None
         THEN v
         ELSE VoiceChain(VoiceSequencer(v, frames, S), frames, S)
    ELSE VoiceChain(v, frames, S)

\* the comparison as it would be if ties went to the later voice
KeyLess_OrEqual(a, b) == a.active /\ (~b.active \/ a.note <= b.note)

\* the key of min() in _find_free_voice compared: key(a) < key(b)
KeyLess(a, b) == a.active /\ (~b.active \/ a.note < b.note)

\* min(self.voices, key=...): the first voice of the lowest key, from voice i on
RECURSIVE MinVoice(_, _, _)
MinVoice(vs, i, best) ==
    IF i > Len(vs) THEN best
    ELSE MinVoice(vs, i + 1, IF KeyLess(vs[i], vs[best]) THEN i ELSE best)

\* whether _find_free_voice finds an inactive voice
HasFree(vs) == \E i \in 1..Len(vs) : ~vs[i].active

\* _find_free_voice as it would be without the search for an inactive voice
FindFreeVoice_AlwaysMin(vs) == MinVoice(vs, 2, 1)

\* Synthesizer._find_free_voice: the index of the voice it returns
FindFreeVoice(vs) ==
    IF HasFree(vs)
    THEN CHOOSE i \in 1..Len(vs) : ~vs[i].active /\ \A j \in 1..(i - 1) : vs[j].active
    ELSE MinVoice(vs, 2, 1)

\* the body of `if voice:` in note_on, on the voice found
AssignNote(v, note, velocity) ==
    [v EXCEPT !.note = note, !.velocity = Rat(velocity, 127), !.active = TRUE,
              !.adsr = gate_on(v.adsr)]

\* note_off's search as it would be without the test of the active flag
NoteOffVoice_AnyMatch(vs, note) ==
    IF \E i \in 1..Len(vs) : vs[i].note = note
    THEN CHOOSE i \in 1..Len(vs) :
            /\ vs[i].note = note
            /\ \A j \in 1..(i - 1) : vs[j].note # note
    ELSE 0

\* the index of the voice note_off releases, 0 when its loop finds none
NoteOffVoice(vs, note) ==
    IF \E i \in 1..Len(vs) : vs[i].note = note /\ vs[i].active
    THEN CHOOSE i \in 1..Len(vs) :
            /\ vs[i].note = note /\ vs[i].active
            /\ \A j \in 1..(i - 1) : ~(vs[j].note = note /\ vs[j].active)
    ELSE 0

\* the shared configuration after Synthesizer.__init__: MIDI input, every stage
\* of the signal chain enabled and none bypassed
DefaultShared ==
    [input_source |-> "midi", sequencer_enabled |-> FALSE, sequencer_notes |-> <<>>,
     chain_enabled |-> [envelope |-> TRUE], chain_bypass |-> [envelope |-> FALSE],
     filter_cutoff |-> RZero]

\* Synthesizer.__init__: the pool
NewPool == [i \in 1..MaxVoices |-> NewVoice]

NoOp == [op |-> "init", note |-> None, velocity |-> 0, voice |-> 0, stole |-> FALSE]

\* no key down
NoKeys == [n \in Notes |-> 0]

\* the threads that run engine code: the audio sink's callback thread, the
\* MIDI thread and the thread of the control surface
Threads == {"audio", "midi", "gui"}

CbIdle == [status |-> "none", outdata |-> "stale", result |-> "none", faulted |-> FALSE]

NoWrite == [thread |-> "none", target |-> "none", locked |-> TRUE, rendering |-> FALSE]

\* no thread inside engine code, the lock free
ThreadsAtRest ==
    /\ pc = [t \in Threads |-> "idle"]
    /\ lock = "free"
    /\ cb = CbIdle
    /\ arg = [t \in Threads |-> 0]
    /\ wr = NoWrite
    /\ calls = [t \in Threads |-> 0]
    /\ stream = "running"

\* the levels a voice's output buffer is filled with
MixLevels == {Rat(-1, 1), Rat(-1, 2), RZero, RHalf, ROne}

MixIdle == [done |-> FALSE, count |-> 0, pre |-> RZero, post |-> RZero]

MixAtRest ==
    /\ mixIn = [v |-> [i \in 1..MaxVoices |-> [active |-> FALSE, out |-> RZero]],
                gain |-> ROne]
    /\ mixOut = MixIdle

\* the stages of Voice.process that shape the signal, in the order of the code
Stages == <<"oscillators", "noise_sub", "envelope", "filter">>

StageSet == {Stages[i] : i \in 1..Len(Stages)}

ChainIdle == [done |-> FALSE, sig |-> <<>>]

\* every stage enabled, none bypassed, no voice processed yet
ChainAtRest ==
    /\ chainFlags = [enabled |-> [x \in StageSet |-> TRUE],
                     bypass |-> [x \in StageSet |-> FALSE]]
    /\ chainOut = ChainIdle

\* LFO.__init__: enabled, not bypassed, phase 0, depth 1, no targets
NewLFO ==
    [enabled |-> TRUE, bypassed |-> FALSE, phase |-> 0, depth |-> ROne,
     targets |-> <<>>]

\* the attributes of STATE among the names an LFO target can carry
DefaultCfg == [n \in {"filter_cutoff"} |-> ROne]

LfoNoCall ==
    [op |-> "none", prev |-> "none", name |-> "", raised |-> FALSE,
     wrote |-> {}]

LfoAtRest ==
    /\ lfo = NewLFO
    /\ lfoCfg = DefaultCfg
    /\ lfoLast = LfoNoCall

\* the harmonics an oscillator adds to its fundamental
Harmonics == 2..MaxHarmonic

\* Oscillator.__init__: phase 0.0, harmonics_phases zeros
NewOscillator == [phase |-> 0, harmonics_phases |-> [i \in Harmonics |-> 0]]

OscAtRest ==
    /\ osc = NewOscillator
    /\ oscOut = [calls |-> <<>>, buf |-> <<>>]

FxIdle == [done |-> FALSE, signal |-> <<>>, trace |-> <<>>, ret |-> <<>>]

\* every slot empty and dry, the delay line silent
FxAtRest ==
    /\ fx = [slots |-> [k \in 1..MaxSlots |->
                           [type |-> "none", depth |-> RZero, mix |-> RZero]],
             delay_buffer |-> [j \in 0..(DelayLen - 1) |-> RZero],
             delay_index |-> 0,
             calls |-> 0]
    /\ fxOut = FxIdle

\* Filter.__init__: fully open low-pass, one stage
NewFilter ==
    [cutoff |-> ROne, resonance |-> RZero, filter_type |-> "lowpass",
     steepness |-> ROne]

FiltNoCall == [op |-> "init", raised |-> FALSE, inlen |-> 0, outlen |-> 0, stages |-> 0]

FiltAtRest ==
    /\ filt = NewFilter
    /\ filtLast = FiltNoCall

\* the delay line of Synthesizer.__init__: zeros, write index 0
NewDelay ==
    [buffer |-> [j \in 0..(DelayLen - 1) |-> RZero], index |-> 0,
     written |-> <<>>, outputs |-> <<>>]

DlyAtRest == dly = NewDelay

\* STATE.adsr after SynthState.__init__ (0.01, 0.1, 0.7, 0.3 seconds), stage
\* lengths on the sample scale of DefaultADSR
DefaultStateAdsr ==
    [attack |-> 1, decay |-> 1, sustain |-> Rat(7, 10), release |-> MaxStage]

CfgAtRest == stateAdsr = DefaultStateAdsr

\* the signal-processing parts while another part is explored
DspAtRest ==
    /\ MixAtRest /\ ChainAtRest /\ LfoAtRest /\ OscAtRest /\ FxAtRest
    /\ FiltAtRest /\ DlyAtRest /\ CfgAtRest

\* the pool part of the state while another part is explored
PoolAtRest ==
    /\ voices = NewPool
    /\ Shared = DefaultShared
    /\ poolLast = NoOp
    /\ held = NoKeys

(***************************************************************************)
(* The stand-alone envelope: gate_on, gate_off and process(n) in any order.*)
(***************************************************************************)
SustainLevels == {RZero, RHalf, ROne}

RMax(x, y) == IF RLe(x, y) THEN y ELSE x

Min(a, b) == IF a <= b THEN a ELSE b

\* the envelope states ADSR.process(n) passes through, one per sample
RECURSIVE EnvVisited(_, _)
EnvVisited(e, n) ==
    IF n = 0 THEN {}
    ELSE {EnvProcessSample(e).state} \cup EnvVisited(EnvProcessSample(e), n - 1)

\* the highest level in a buffer
RECURSIVE BufMax(_)
BufMax(buf) == IF buf = <<>> THEN RZero ELSE RMax(Head(buf), BufMax(Tail(buf)))

RelIdle == [on |-> FALSE, L |-> RZero, n |-> 0, again |-> FALSE,
            hi |-> RZero, visited |-> {}]

RetrigIdle == [armed |-> FALSE, seen |-> FALSE, L |-> RZero, first |-> RZero]

PeakIdle == [on |-> FALSE, n |-> 0, at |-> -1]

\* the index of the first sample of level 1.0 in a buffer, 0 when there is none
FirstOne(buf) ==
    IF \E i \in 1..Len(buf) : buf[i] = ROne
    THEN CHOOSE i \in 1..Len(buf) : buf[i] = ROne /\ \A j \in 1..(i - 1) : buf[j] # ROne
    ELSE 0

\* the envelope part of the state while another part is explored
EnvAtRest ==
    /\ adsr = DefaultADSR
    /\ envLast = [op |-> "init", frames |-> 0, from |-> "idle"]
    /\ rel = RelIdle
    /\ retrig = RetrigIdle
    /\ peak = PeakIdle

EnvInit ==
    /\ PoolAtRest
    /\ ThreadsAtRest
    /\ DspAtRest
    /\ adsr \in {NewADSR(a, d, s, r) :
                    a \in 1..MaxStage, d \in 1..MaxStage,
                    s \in SustainLevels, r \in 1..MaxStage}
    /\ envLast = [op |-> "init", frames |-> 0, from |-> adsr.state]
    /\ rel = RelIdle
    /\ retrig = RetrigIdle
    /\ peak = PeakIdle

EnvGateOn ==
    /\ adsr' = gate_on(adsr)
    /\ envLast' = [op |-> "gate_on", frames |-> 0, from |-> adsr.state]
    /\ rel' = RelIdle
    /\ retrig' = [armed |-> TRUE, seen |-> FALSE,
                  L |-> adsr.current_level, first |-> RZero]
    /\ peak' = [on |-> (adsr.state = "idle"), n |-> 0, at |-> -1]
    /\ UNCHANGED <<poolVars, thrVars, dspVars>>

EnvGateOff ==
    /\ CanGateOff(adsr)
    /\ adsr' = gate_off(adsr)
    /\ envLast' = [op |-> "gate_off", frames |-> 0, from |-> adsr.state]
    /\ rel' = CASE adsr.state \in {"attack", "decay", "sustain"} ->
                     [on |-> TRUE, L |-> adsr.current_level, n |-> 0,
                      again |-> FALSE, hi |-> RZero, visited |-> {}]
                [] adsr.state = "release" ->
                     [rel EXCEPT !.again = rel.on]
                [] OTHER -> rel
    /\ retrig' = RetrigIdle
    /\ peak' = IF adsr.state = "idle" THEN peak ELSE PeakIdle
    /\ UNCHANGED <<poolVars, thrVars, dspVars>>

EnvProcessCall(n) ==
    /\ CanProcess(adsr, n)
    /\ adsr' = EnvProcess(adsr, n)
    /\ envLast' = [op |-> "process", frames |-> n, from |-> adsr.state]
    /\ rel' = [rel EXCEPT
                 !.n = IF rel.on THEN Min(rel.n + n, MaxStage + MaxFrames + 1) ELSE 0,
                 !.hi = IF rel.on THEN RMax(rel.hi, BufMax(EnvOutput(adsr, n))) ELSE RZero,
                 !.visited = IF rel.on THEN rel.visited \cup EnvVisited(adsr, n) ELSE {}]
    /\ retrig' = IF retrig.armed
                 THEN [armed |-> FALSE, seen |-> TRUE, L |-> retrig.L,
                       first |-> EnvOutput(adsr, n)[1]]
                 ELSE RetrigIdle
    /\ peak' = IF peak.on
               THEN [on |-> TRUE, n |-> peak.n + n,
                     at |-> IF peak.at = -1 /\ FirstOne(EnvOutput(adsr, n)) # 0
                            THEN peak.n + FirstOne(EnvOutput(adsr, n)) - 1
                            ELSE peak.at]
               ELSE PeakIdle
    /\ UNCHANGED <<poolVars, thrVars, dspVars>>

EnvNext ==
    \/ EnvGateOn
    \/ EnvGateOff
    \/ \E n \in 1..MaxFrames : EnvProcessCall(n)

SpecEnv == EnvInit /\ [][EnvNext]_vars

(***************************************************************************)
(* The voice pool: note events, the emergency reset, writes of the control *)
(* surface to the shared configuration, and the audio callback's render    *)
(* (the body of `with self.lock`), each as one step.                       *)
(***************************************************************************)
\* the settings of the shared configuration the control surface can write
SharedConfigs ==
    {DefaultShared,
     [DefaultShared EXCEPT !.chain_enabled.envelope = FALSE],
     [DefaultShared EXCEPT !.chain_bypass.envelope = TRUE],
     [DefaultShared EXCEPT !.input_source = "sequencer", !.sequencer_enabled = TRUE]}

PoolInit ==
    /\ EnvAtRest
    /\ ThreadsAtRest
    /\ DspAtRest
    /\ voices = NewPool
    /\ Shared = DefaultShared
    /\ poolLast = NoOp
    /\ held = NoKeys

\* note_on as it would be if a full pool dropped the note instead of stealing
NoteOn_NoSteal(note, velocity) ==
    LET k == FindFreeVoice(voices) IN
    /\ voices' = IF HasFree(voices)
                 THEN [voices EXCEPT ![k] = AssignNote(voices[k], note, velocity)]
                 ELSE voices
    /\ poolLast' = [op |-> "note_on", note |-> note, velocity |-> velocity,
                    voice |-> IF HasFree(voices) THEN k ELSE 0, stole |-> FALSE]
    /\ UNCHANGED <<Shared, envVars, thrVars, dspVars>>

\* Synthesizer.note_on(note, velocity)
NoteOn(note, velocity) ==
    LET k == FindFreeVoice(voices) IN
    /\ IF ~HasFree(voices) /\ \E i \in 1..Len(voices) : voices[i].note = None
       THEN \* min() compares None with a note: TypeError, nothing assigned
            /\ poolLast' = [op |-> "note_on_error", note |-> note,
                            velocity |-> velocity, voice |-> 0, stole |-> FALSE]
            /\ UNCHANGED voices
       ELSE /\ voices' = [voices EXCEPT ![k] = AssignNote(voices[k], note, velocity)]
            /\ poolLast' = [op |-> "note_on", note |-> note, velocity |-> velocity,
                            voice |-> k, stole |-> ~HasFree(voices)]
    /\ UNCHANGED <<Shared, envVars, thrVars, dspVars>>

\* Synthesizer.note_off(note)
NoteOff(note) ==
    LET k == NoteOffVoice(voices, note) IN
    /\ k # 0 => CanGateOff(voices[k].adsr)
    /\ voices' = IF k = 0 THEN voices
                 ELSE [voices EXCEPT ![k].adsr = gate_off(voices[k].adsr)]
    /\ poolLast' = [op |-> "note_off", note |-> note, velocity |-> 0,
                    voice |-> k, stole |-> FALSE]
    /\ UNCHANGED <<Shared, envVars, thrVars, dspVars>>

\* Synthesizer.reset_all_voices
ResetAllVoices ==
    /\ \A i \in 1..Len(voices) : CanGateOff(voices[i].adsr)
    /\ voices' = [i \in 1..Len(voices) |-> VoiceReset(voices[i])]
    /\ poolLast' = [op |-> "reset_all_voices", note |-> None, velocity |-> 0,
                    voice |-> 0, stole |-> FALSE]
    /\ UNCHANGED <<Shared, envVars, thrVars, dspVars>>

\* Synthesizer._audio_callback, the voice loop: every active voice is processed
Render(frames) ==
    /\ \A i \in 1..Len(voices) : voices[i].active => CanProcess(voices[i].adsr, frames)
    /\ voices' = [i \in 1..Len(voices) |->
                    IF voices[i].active THEN VoiceProcess(voices[i], frames, Shared)
                    ELSE voices[i]]
    /\ poolLast' = [op |-> "render", note |-> None, velocity |-> 0,
                    voice |-> 0, stole |-> FALSE]
    /\ UNCHANGED <<Shared, envVars, thrVars, dspVars>>

\* a write of the control surface to the shared configuration
SetShared(c) ==
    /\ c # Shared
    /\ Shared' = c
    /\ poolLast' = [op |-> "set_shared", note |-> None, velocity |-> 0,
                    voice |-> 0, stole |-> FALSE]
    /\ UNCHANGED <<voices, envVars, thrVars, dspVars>>

PoolNext ==
    \/ \E n \in Notes, v \in Velocities : NoteOn(n, v) /\ UNCHANGED held
    \/ \E n \in Notes : NoteOff(n) /\ UNCHANGED held
    \/ ResetAllVoices /\ UNCHANGED held
    \/ \E f \in 1..MaxFrames : Render(f) /\ UNCHANGED held
    \/ \E c \in SharedConfigs : SetShared(c) /\ UNCHANGED held

SpecPool == PoolInit /\ [][PoolNext]_vars

(***************************************************************************)
(* The engine under its threads: the audio callback step by step, kill()   *)
(* step by step (from the callback's underflow handling or from the Kill   *)
(* button), the note handlers of the MIDI thread, MIDI control changes and *)
(* the sequencer setters of the control surface.  A step that calls an     *)
(* external collaborator (Tk, numpy, the LFO, a voice's signal chain) ends *)
(* normally or raises.                                                     *)
(***************************************************************************)
\* a step of the callback's try block is being executed
Rendering == pc["audio"] \in {"lfo", "voices", "mix"}

\* the record of a write made by thread t
Write(t, target) ==
    [thread |-> t, target |-> target, locked |-> (lock = t),
     rendering |-> (t # "audio" /\ Rendering)]

Goto(t, l) == pc' = [pc EXCEPT ![t] = l]

\* thread t makes one more call into the engine
Start(t) ==
    /\ calls[t] < MaxCalls
    /\ calls' = [calls EXCEPT ![t] = calls[t] + 1]

\* an exception leaves the code thread t is running: out of _audio_callback
\* for the audio thread, out of the button's command for the control surface
Raise(t) ==
    /\ Goto(t, "idle")
    /\ cb' = IF t = "audio"
             THEN [cb EXCEPT !.faulted = TRUE, !.result = "raised"]
             ELSE cb

\* the statuses the audio sink reports to the callback
Statuses == {"none", "other", "underflow"}

\* values of a MIDI control change; none maps to the initial cutoff, so the
\* cache of last_cc_values holds `value` exactly when STATE holds its image
CCValues == {64, 127}

\* note patterns the control surface sets
SeqPatterns == {<<1>>, <<2, 1>>}

ThreadsInit ==
    /\ EnvAtRest
    /\ PoolAtRest
    /\ ThreadsAtRest
    /\ DspAtRest

\* _audio_callback is entered: `if status:` and `if status.output_underflow:`
CbEnter(status) ==
    /\ pc["audio"] = "idle"
    /\ stream = "running"
    /\ cb' = [status |-> status, outdata |-> "stale", result |-> "running",
              faulted |-> FALSE]
    /\ Goto("audio", IF status = "underflow" THEN "show_error" ELSE "acquire")
    /\ Start("audio")
    /\ UNCHANGED <<envVars, dspVars, stream, poolVars, lock, arg, wr>>

\* self._show_error(...): a Tk message box opened from the callback
CbShowError(ok) ==
    /\ pc["audio"] = "show_error"
    /\ IF ok THEN Goto("audio", "kill_stop") /\ UNCHANGED cb ELSE Raise("audio")
    /\ UNCHANGED <<envVars, dspVars, stream, poolVars, lock, arg, wr, calls>>

\* the Kill button: command=self.synth.kill
GuiKill ==
    /\ pc["gui"] = "idle"
    /\ Goto("gui", "kill_stop")
    /\ Start("gui")
    /\ UNCHANGED <<envVars, dspVars, stream, poolVars, lock, cb, arg, wr>>

\* kill -> stop: the stream is stopped and closed
KillStop(t) ==
    /\ pc[t] = "kill_stop"
    /\ stream' = "stopped"
    /\ Goto(t, "reset_acquire")
    /\ UNCHANGED <<envVars, dspVars, poolVars, lock, cb, arg, wr, calls>>

\* stop -> reset_all_voices: `with self.lock`
ResetAcquire(t) ==
    /\ pc[t] = "reset_acquire"
    /\ lock = "free"
    /\ lock' = t
    /\ Goto(t, "reset_body")
    /\ UNCHANGED <<envVars, dspVars, stream, poolVars, cb, arg, wr, calls>>

\* reset_all_voices: the loop under the lock, and the release of the lock
ResetBody(t) ==
    /\ pc[t] = "reset_body"
    /\ \A i \in 1..Len(voices) : CanGateOff(voices[i].adsr)
    /\ voices' = [i \in 1..Len(voices) |-> VoiceReset(voices[i])]
    /\ wr' = Write(t, "voices")
    /\ lock' = "free"
    /\ Goto(t, "kill_start")
    /\ UNCHANGED <<envVars, dspVars, stream, Shared, poolLast, held, cb, arg, calls>>

\* kill -> start: sd.OutputStream(...) and stream.start() succeed or raise;
\* the except clause prints and logs the failure and start() returns
KillStart(t, ok) ==
    /\ pc[t] = "kill_start"
    /\ stream' = IF ok THEN "running" ELSE "failed"
    /\ Goto(t, "restart_reset")
    /\ arg' = [arg EXCEPT ![t] = 1]
    /\ UNCHANGED <<envVars, dspVars, poolVars, lock, cb, wr, calls>>

\* _restart_oscillator_and_spectrometer: one iteration of `for voice in
\* self.voices: voice.reset()`
RestartReset(t) ==
    LET i == arg[t] IN
    /\ pc[t] = "restart_reset"
    /\ CanGateOff(voices[i].adsr)
    /\ voices' = [voices EXCEPT ![i] = VoiceReset(voices[i])]
    /\ wr' = Write(t, "voices")
    /\ IF i = Len(voices)
       THEN Goto(t, "restart_monitors") /\ arg' = [arg EXCEPT ![t] = 0]
       ELSE arg' = [arg EXCEPT ![t] = i + 1] /\ UNCHANGED pc
    /\ UNCHANGED <<envVars, dspVars, stream, Shared, poolLast, held, lock, cb, calls>>

\* _restart_oscillator_and_spectrometer: DEBUG.signal_monitors holds no
\* 'pre_filter', the lookup raises KeyError and kill() ends with it
RestartMonitors(t) ==
    /\ pc[t] = "restart_monitors"
    /\ Raise(t)
    /\ UNCHANGED <<envVars, dspVars, stream, poolVars, lock, arg, wr, calls>>

\* the callback's `with self.lock:` is entered
CbAcquire ==
    /\ pc["audio"] = "acquire"
    /\ lock = "free"
    /\ lock' = "audio"
    /\ Goto("audio", "lfo")
    /\ UNCHANGED <<envVars, dspVars, stream, poolVars, cb, arg, wr, calls>>

\* a step inside the try block raises and the lock stays with the callback
CbFault_KeepsLock ==
    /\ cb' = [cb EXCEPT !.faulted = TRUE]
    /\ lock' = lock
    /\ Goto("audio", "except")

\* a step inside the try block raises: the with statement releases the lock
\* and control passes to the except clauses
CbFault ==
    /\ cb' = [cb EXCEPT !.faulted = TRUE]
    /\ lock' = "free"
    /\ Goto("audio", "except")

\* self.lfo.generate(frames); self.lfo.process()
CbLfo(ok) ==
    /\ pc["audio"] = "lfo"
    /\ IF ok THEN Goto("audio", "voices") /\ UNCHANGED <<lock, cb>> ELSE CbFault
    /\ UNCHANGED <<envVars, dspVars, stream, poolVars, arg, wr, calls>>

\* the voice loop over one frame: the active voices up to voice k are
\* processed; k below the pool size is a voice.process that raises
CbVoices(k) ==
    /\ pc["audio"] = "voices"
    /\ \A i \in 1..k : voices[i].active => CanProcess(voices[i].adsr, 1)
    /\ voices' = [i \in 1..Len(voices) |->
                    IF i <= k /\ voices[i].active
                    THEN VoiceProcess(voices[i], 1, Shared)
                    ELSE voices[i]]
    /\ wr' = IF \E i \in 1..k : voices[i].active THEN Write("audio", "voices") ELSE wr
    /\ IF k = Len(voices) THEN Goto("audio", "mix") /\ UNCHANGED <<lock, cb>>
       ELSE CbFault
    /\ UNCHANGED <<envVars, dspVars, stream, Shared, poolLast, held, arg, calls>>

\* normalisation, gain, pan and effects, then outdata[:] = ...; the callback
\* returns
CbMix(ok) ==
    /\ pc["audio"] = "mix"
    /\ IF ok
       THEN /\ cb' = [cb EXCEPT !.outdata = "audio", !.result = "returned"]
            /\ lock' = "free"
            /\ Goto("audio", "idle")
       ELSE CbFault
    /\ UNCHANGED <<envVars, dspVars, stream, poolVars, arg, wr, calls>>

\* an except clause: the error is printed, outdata.fill(0); the callback returns
CbExcept ==
    /\ pc["audio"] = "except"
    /\ cb' = [cb EXCEPT !.outdata = "silence", !.result = "returned"]
    /\ Goto("audio", "idle")
    /\ UNCHANGED <<envVars, dspVars, stream, poolVars, lock, arg, wr, calls>>

\* note_on entered without waiting for the lock
MidiNoteOn_NoLock(note) ==
    /\ pc["midi"] = "idle"
    /\ lock' = "midi"
    /\ arg' = [arg EXCEPT !["midi"] = note]
    /\ Goto("midi", "note_on_body")
    /\ Start("midi")
    /\ UNCHANGED <<envVars, dspVars, stream, poolVars, cb, wr>>

\* the MIDI thread delivers note_on(note, velocity): `with self.lock`
MidiNoteOn(note) ==
    /\ pc["midi"] = "idle"
    /\ lock = "free"
    /\ lock' = "midi"
    /\ arg' = [arg EXCEPT !["midi"] = note]
    /\ Goto("midi", "note_on_body")
    /\ Start("midi")
    /\ UNCHANGED <<envVars, dspVars, stream, poolVars, cb, wr>>

\* note_on: the body under the lock, and the release of the lock
NoteOnBody ==
    LET k == FindFreeVoice(voices) IN
    /\ pc["midi"] = "note_on_body"
    /\ IF ~HasFree(voices) /\ \E i \in 1..Len(voices) : voices[i].note = None
       THEN UNCHANGED <<voices, wr>>
       ELSE /\ voices' = [voices EXCEPT
                             ![k] = AssignNote(voices[k], arg["midi"], 100)]
            /\ wr' = Write("midi", "voices")
    /\ lock' = "free"
    /\ arg' = [arg EXCEPT !["midi"] = 0]
    /\ Goto("midi", "idle")
    /\ UNCHANGED <<envVars, dspVars, stream, Shared, poolLast, held, cb, calls>>

\* the MIDI thread delivers note_off(note): `with self.lock`
MidiNoteOff(note) ==
    /\ pc["midi"] = "idle"
    /\ lock = "free"
    /\ lock' = "midi"
    /\ arg' = [arg EXCEPT !["midi"] = note]
    /\ Goto("midi", "note_off_body")
    /\ Start("midi")
    /\ UNCHANGED <<envVars, dspVars, stream, poolVars, cb, wr>>

\* note_off: the body under the lock, and the release of the lock
NoteOffBody ==
    LET k == NoteOffVoice(voices, arg["midi"]) IN
    /\ pc["midi"] = "note_off_body"
    /\ k # 0 => CanGateOff(voices[k].adsr)
    /\ IF k = 0 THEN UNCHANGED <<voices, wr>>
       ELSE /\ voices' = [voices EXCEPT ![k].adsr = gate_off(voices[k].adsr)]
            /\ wr' = Write("midi", "voices")
    /\ lock' = "free"
    /\ arg' = [arg EXCEPT !["midi"] = 0]
    /\ Goto("midi", "idle")
    /\ UNCHANGED <<envVars, dspVars, stream, Shared, poolLast, held, cb, calls>>

\* MIDIHandler._handle_cc for the filter cutoff controller, under the
\* handler's own lock (MIDIHandler.lock, which no other thread takes)
MidiCC(value) ==
    /\ pc["midi"] = "idle"
    /\ Shared.filter_cutoff # Rat(value, 127)
    /\ Shared' = [Shared EXCEPT !.filter_cutoff = Rat(value, 127)]
    /\ wr' = Write("midi", "Shared")
    /\ Start("midi")
    /\ UNCHANGED <<envVars, dspVars, stream, voices, poolLast, held, pc, lock, cb, arg>>

\* Synthesizer.set_sequencer_notes(notes)
SetSequencerNotes(notes) ==
    /\ pc["gui"] = "idle"
    /\ Shared' = [Shared EXCEPT !.sequencer_notes = notes]
    /\ wr' = Write("gui", "Shared")
    /\ Start("gui")
    /\ UNCHANGED <<envVars, dspVars, stream, voices, poolLast, held, pc, lock, cb, arg>>

\* Synthesizer.set_sequencer_tempo(bpm), d being int(samples_per_beat)
SetSequencerTempo(d) ==
    /\ pc["gui"] = "idle"
    /\ voices' = [i \in 1..Len(voices) |-> [voices[i] EXCEPT !.step_duration = d]]
    /\ wr' = Write("gui", "voices")
    /\ Start("gui")
    /\ UNCHANGED <<envVars, dspVars, stream, Shared, poolLast, held, pc, lock, cb, arg>>

ThreadsNext ==
    \/ \E s \in Statuses : CbEnter(s)
    \/ \E ok \in BOOLEAN : CbShowError(ok)
    \/ GuiKill
    \/ \E t \in {"audio", "gui"} : KillStop(t)
    \/ \E t \in {"audio", "gui"} : ResetAcquire(t)
    \/ \E t \in {"audio", "gui"} : ResetBody(t)
    \/ \E t \in {"audio", "gui"}, ok \in BOOLEAN : KillStart(t, ok)
    \/ \E t \in {"audio", "gui"} : RestartReset(t)
    \/ \E t \in {"audio", "gui"} : RestartMonitors(t)
    \/ CbAcquire
    \/ \E ok \in BOOLEAN : CbLfo(ok)
    \/ \E k \in 0..MaxVoices : CbVoices(k)
    \/ \E ok \in BOOLEAN : CbMix(ok)
    \/ CbExcept
    \/ \E n \in Notes : MidiNoteOn(n)
    \/ NoteOnBody
    \/ \E n \in Notes : MidiNoteOff(n)
    \/ NoteOffBody
    \/ \E v \in CCValues : MidiCC(v)
    \/ \E p \in SeqPatterns : SetSequencerNotes(p)
    \/ \E d \in {StepDuration, StepDuration + 1} : SetSequencerTempo(d)

SpecThreads == ThreadsInit /\ [][ThreadsNext]_vars

\* the steps a thread takes once it is inside a call: the operating system
\* schedules every thread that can run, and a released lock is handed to a
\* waiting thread
ThreadStep(t) ==
    \/ t = "audio" /\ \E ok \in BOOLEAN : CbShowError(ok)
    \/ t \in {"audio", "gui"} /\ KillStop(t)
    \/ t \in {"audio", "gui"} /\ ResetAcquire(t)
    \/ t \in {"audio", "gui"} /\ ResetBody(t)
    \/ t \in {"audio", "gui"} /\ \E ok \in BOOLEAN : KillStart(t, ok)
    \/ t \in {"audio", "gui"} /\ RestartReset(t)
    \/ t \in {"audio", "gui"} /\ RestartMonitors(t)
    \/ t = "audio" /\ CbAcquire
    \/ t = "audio" /\ \E ok \in BOOLEAN : CbLfo(ok)
    \/ t = "audio" /\ \E k \in 0..MaxVoices : CbVoices(k)
    \/ t = "audio" /\ \E ok \in BOOLEAN : CbMix(ok)
    \/ t = "audio" /\ CbExcept
    \/ t = "midi" /\ NoteOnBody
    \/ t = "midi" /\ NoteOffBody

\* the calls that take the Synthesizer lock, entered by the audio sink, the
\* MIDI thread and the Kill button, and the steps inside them
LockNext ==
    \/ \E s \in Statuses : CbEnter(s)
    \/ GuiKill
    \/ MidiNoteOn(1)
    \/ MidiNoteOff(1)
    \/ \E t \in Threads : ThreadStep(t)

SpecLock ==
    /\ ThreadsInit
    /\ [][LockNext]_vars
    /\ \A t \in Threads : WF_vars(ThreadStep(t))

(***************************************************************************)
(* The callback's mix: the voice loop's sum and count, the normalisation,  *)
(* the clip and the master gain, over voices whose buffers hold a constant *)
(* level.                                                                  *)
(***************************************************************************)
MixInit ==
    /\ EnvAtRest
    /\ PoolAtRest
    /\ ThreadsAtRest
    /\ DspAtRest

\* the test as it would be if every active voice were counted
MixCounts_Active(x) == x.active

\* whether the voice loop adds a voice's buffer and counts the voice:
\* `if voice.active:` and `if np.any(voice_output != 0):`
MixCounts(x) == x.active /\ x.out # RZero

\* the voice loop from voice i on: active_count and output
RECURSIVE MixLoop(_, _, _)
MixLoop(ins, i, acc) ==
    IF i > Len(ins) THEN acc
    ELSE MixLoop(ins, i + 1,
                 IF MixCounts(ins[i])
                 THEN [count |-> acc.count + 1, sum |-> RAdd(acc.sum, ins[i].out)]
                 ELSE acc)

\* np.clip(x, -1.0, 1.0)
RClip(x) == IF RLt(x, Rat(-1, 1)) THEN Rat(-1, 1) ELSE IF RLt(ROne, x) THEN ROne ELSE x

\* output / max(1.0, active_count)
Normalize(sum, count) == Rat(sum[1], sum[2] * (IF count > 1 THEN count ELSE 1))

\* the mix of one callback
MixOf(in) ==
    LET acc == MixLoop(in.v, 1, [count |-> 0, sum |-> RZero]) IN
    IF acc.count > 0
    THEN [done |-> TRUE, count |-> acc.count,
          pre |-> Normalize(acc.sum, acc.count),
          post |-> RMul(RClip(Normalize(acc.sum, acc.count)), in.gain)]
    ELSE [done |-> TRUE, count |-> 0, pre |-> RZero, post |-> RZero]

\* what voice i returns to the next callback changes
MixSetVoice(i, a, x) ==
    /\ mixIn' = [mixIn EXCEPT !.v[i] = [active |-> a, out |-> IF a THEN x ELSE RZero]]
    /\ mixIn' # mixIn
    /\ mixOut' = MixIdle
    /\ UNCHANGED notMix

\* the control surface writes STATE.master_gain
MixSetGain(g) ==
    /\ g # mixIn.gain
    /\ mixIn' = [mixIn EXCEPT !.gain = g]
    /\ mixOut' = MixIdle
    /\ UNCHANGED notMix

\* _audio_callback, from `output = np.zeros(frames)` to the master gain
MixCallback ==
    /\ ~mixOut.done
    /\ mixOut' = MixOf(mixIn)
    /\ UNCHANGED <<notMix, mixIn>>

MixNext ==
    \/ \E i \in 1..MaxVoices, a \in BOOLEAN, x \in MixLevels : MixSetVoice(i, a, x)
    \/ \E g \in {RZero, RHalf, ROne} : MixSetGain(g)
    \/ MixCallback

SpecMix == MixInit /\ [][MixNext]_vars

(***************************************************************************)
(* The signal chain of one sounding voice: Voice.process from the          *)
(* oscillators to the filter, the signal held as the list of the stages    *)
(* that acted on it.                                                       *)
(***************************************************************************)
ChainInit ==
    /\ EnvAtRest
    /\ PoolAtRest
    /\ ThreadsAtRest
    /\ DspAtRest

\* the gate as it would be if a bypassed stage still ran
StageRuns_EnabledOnly(f, x) == f.enabled[x]

\* `if STATE.chain_enabled[x] and not STATE.chain_bypass[x]:`
StageRuns(f, x) == f.enabled[x] /\ ~f.bypass[x]

\* the stages from stage i on applied to signal sig, each behind its own gate
RECURSIVE ChainFrom(_, _, _)
ChainFrom(f, i, sig) ==
    IF i > Len(Stages) THEN sig
    ELSE ChainFrom(f, i + 1,
                   IF StageRuns(f, Stages[i]) THEN Append(sig, Stages[i]) ELSE sig)

\* the control surface toggles a stage's enable flag
ChainToggleEnabled(x) ==
    /\ chainFlags' = [chainFlags EXCEPT !.enabled[x] = ~chainFlags.enabled[x]]
    /\ chainOut' = ChainIdle
    /\ UNCHANGED notChain

\* the control surface toggles a stage's bypass flag
ChainToggleBypass(x) ==
    /\ chainFlags' = [chainFlags EXCEPT !.bypass[x] = ~chainFlags.bypass[x]]
    /\ chainOut' = ChainIdle
    /\ UNCHANGED notChain

\* Voice.process of a voice that holds a note: output = np.zeros(frames), then
\* the stages
ChainProcess ==
    /\ ~chainOut.done
    /\ chainOut' = [done |-> TRUE, sig |-> ChainFrom(chainFlags, 1, <<>>)]
    /\ UNCHANGED <<notChain, chainFlags>>

ChainNext ==
    \/ \E x \in StageSet : ChainToggleEnabled(x)
    \/ \E x \in StageSet : ChainToggleBypass(x)
    \/ ChainProcess

SpecChain == ChainInit /\ [][ChainNext]_vars

(***************************************************************************)
(* The LFO and its modulation targets: one LFO object, the shared          *)
(* configuration it writes, and its callers (the audio callback's          *)
(* generate and process, the GUI's target and bypass toggles).  The LFO    *)
(* runs a saw at one step of 1/LfoPeriod of a cycle per sample, offset 0.  *)
(***************************************************************************)
LfoInit ==
    /\ EnvAtRest
    /\ PoolAtRest
    /\ ThreadsAtRest
    /\ DspAtRest

PARAMETER_RANGES ==
    [n \in {"cutoff", "resonance", "volume", "pan", "pitch", "filter_env",
            "amp_env", "osc1_level", "osc2_level", "osc3_level", "sub_level",
            "noise_level"} |->
        CASE n = "cutoff" -> <<20, 20000>>
          [] n = "pan" -> <<-100, 100>>
          [] n = "pitch" -> <<-12, 12>>
          [] OTHER -> <<0, 100>>]

\* the names handed to add_target / remove_target: a STATE attribute without
\* a parameter range, a parameter range without a STATE attribute, and the
\* GUI's oscillator-mix target, which is neither
TargetNames == {"filter_cutoff", "pan", "osc_mix_0"}

Depths == {RHalf, ROne}

\* np.clip(x, lo, hi)
RClipTo(x, lo, hi) == IF RLt(x, lo) THEN lo ELSE IF RLt(hi, x) THEN hi ELSE x

\* saw: 2 * (t - floor(t)) - 1 at t = q / LfoPeriod
Saw(q) == Rat(2 * (q % LfoPeriod) - LfoPeriod, LfoPeriod)

\* value * self.depth + self.offset
LfoValue(l, q) == RMul(Saw(q), l.depth)

\* position of name in the targets dict, 0 if it is not a key
RECURSIVE TargetIndex(_, _, _)
TargetIndex(ts, name, i) ==
    IF i > Len(ts) THEN 0
    ELSE IF ts[i].name = name THEN i
    ELSE TargetIndex(ts, name, i + 1)

TargetKeys(ts) == {ts[i].name : i \in 1..Len(ts)}

\* LFO._scale_value
ScaleValue(l, raw_value, param_type) ==
    IF param_type \notin DOMAIN PARAMETER_RANGES THEN raw_value
    ELSE LET min_val == PARAMETER_RANGES[param_type][1]
             max_val == PARAMETER_RANGES[param_type][2]
             center == Rat(max_val + min_val, 2)
             range_half == Rat(max_val - min_val, 2)
             scaled == RAdd(center, RMul(RMul(raw_value, range_half), l.depth))
         IN  RClipTo(scaled, Rat(min_val, 1), Rat(max_val, 1))

\* the target loop of LFO.process from target i on; st = [cfg, raised, wrote]
RECURSIVE ProcessTargets(_, _, _, _)
ProcessTargets(l, value, i, st) ==
    IF i > Len(l.targets) THEN st
    ELSE LET t == l.targets[i] IN
         IF t.name \notin DOMAIN st.cfg THEN ProcessTargets(l, value, i + 1, st)
         ELSE IF t.type \notin DOMAIN PARAMETER_RANGES
              THEN [st EXCEPT !.raised = TRUE]
         ELSE LET min_val == PARAMETER_RANGES[t.type][1]
                  max_val == PARAMETER_RANGES[t.type][2]
                  param_range == Rat(max_val - min_val, 1)
                  modulation ==
                      RMul(RMul(RMul(value, param_range), l.depth), RHalf)
                  new_value == RClipTo(RAdd(t.base, modulation),
                                       Rat(min_val, 1), Rat(max_val, 1))
              IN  ProcessTargets(l, value, i + 1,
                      [st EXCEPT !.cfg[t.name] = new_value,
                                 !.wrote = @ \cup {t.name}])

\* the target loop of LFO.generate from target i on
RECURSIVE GenerateTargets(_, _, _, _)
GenerateTargets(l, value, i, st) ==
    IF i > Len(l.targets) THEN st
    ELSE LET t == l.targets[i] IN
         IF t.name \notin DOMAIN st.cfg THEN GenerateTargets(l, value, i + 1, st)
         ELSE GenerateTargets(l, value, i + 1,
                  [st EXCEPT !.cfg[t.name] = ScaleValue(l, value, t.type),
                             !.wrote = @ \cup {t.name}])

LfoCall(op, name, st) ==
    [op |-> op,
     prev |-> IF lfoLast.op \in {"unbypass", "remove_target"} THEN lfoLast.op
              ELSE "none",
     name |-> name, raised |-> st.raised, wrote |-> st.wrote]

Quiet == [cfg |-> lfoCfg, raised |-> FALSE, wrote |-> {}]

\* the targets dict after targets[target_name] = (base_value, target_name)
AddTarget(ts, name, base) ==
    LET k == TargetIndex(ts, name, 1)
        e == [name |-> name, base |-> base, type |-> name]
    IN  IF k = 0 THEN Append(ts, e) ELSE [ts EXCEPT ![k] = e]

\* remove_target as it would be if it dropped the whole dict
RemoveTarget_All(ts, name) == <<>>

\* the targets dict after `if target_name in self.targets: del ...`
RemoveTarget(ts, name) == SelectSeq(ts, LAMBDA t : t.name # name)

\* LFO.add_target, called as the GUI does with the attribute's current value
\* (0.0 if STATE has no such attribute) as the base
LfoAddTarget(name) ==
    /\ lfo' = [lfo EXCEPT !.targets =
                   AddTarget(@, name,
                             IF name \in DOMAIN lfoCfg THEN lfoCfg[name] ELSE RZero)]
    /\ lfoLast' = LfoCall("add_target", name, Quiet)
    /\ UNCHANGED <<notLfo, lfoCfg>>

\* LFO.remove_target
LfoRemoveTarget(name) ==
    /\ lfo' = [lfo EXCEPT !.targets = RemoveTarget(@, name)]
    /\ lfoLast' = LfoCall("remove_target", name, Quiet)
    /\ UNCHANGED <<notLfo, lfoCfg>>

\* LFO.set_parameters with a new depth
LfoSetDepth(d) ==
    /\ lfo' = [lfo EXCEPT !.depth = d]
    /\ lfoLast' = LfoCall("set_parameters", "", Quiet)
    /\ UNCHANGED <<notLfo, lfoCfg>>

\* LFO.enable / LFO.disable
LfoSetEnabled(b) ==
    /\ lfo' = [lfo EXCEPT !.enabled = b]
    /\ lfoLast' = LfoCall(IF b THEN "enable" ELSE "disable", "", Quiet)
    /\ UNCHANGED <<notLfo, lfoCfg>>

\* LFO.bypass
LfoBypass ==
    /\ lfo' = [lfo EXCEPT !.bypassed = TRUE]
    /\ lfoLast' = LfoCall("bypass", "", Quiet)
    /\ UNCHANGED <<notLfo, lfoCfg>>

\* LFO.unbypass
LfoUnbypass ==
    /\ lfo' = [lfo EXCEPT !.bypassed = FALSE]
    /\ lfoLast' = LfoCall("unbypass", "", Quiet)
    /\ UNCHANGED <<notLfo, lfoCfg>>

\* LFO.process: one sample at the current phase, phase advanced, targets
\* written
LfoProcess ==
    IF ~lfo.enabled \/ lfo.bypassed
    THEN /\ lfoLast' = LfoCall("process", "", Quiet)
         /\ UNCHANGED <<notLfo, lfo, lfoCfg>>
    ELSE LET value == LfoValue(lfo, lfo.phase)
             st == ProcessTargets(lfo, value, 1, Quiet)
         IN  /\ lfo' = [lfo EXCEPT !.phase = (@ + 1) % LfoPeriod]
             /\ lfoCfg' = st.cfg
             /\ lfoLast' = LfoCall("process", "", st)
             /\ UNCHANGED notLfo

\* LFO.generate(buffer_size): samples at phase, phase + 1, ...; the phase
\* kept is that of the last sample, whose value goes to the targets
LfoGenerate(buffer_size) ==
    IF lfo.bypassed
    THEN /\ lfoLast' = LfoCall("generate", "", Quiet)
         /\ UNCHANGED <<notLfo, lfo, lfoCfg>>
    ELSE LET last == lfo.phase + buffer_size - 1
             value == LfoValue(lfo, last)
             st == GenerateTargets(lfo, value, 1, Quiet)
         IN  /\ lfo' = [lfo EXCEPT !.phase = last % LfoPeriod]
             /\ lfoCfg' = st.cfg
             /\ lfoLast' = LfoCall("generate", "", st)
             /\ UNCHANGED notLfo

LfoNext ==
    \/ \E name \in TargetNames : LfoAddTarget(name)
    \/ \E name \in TargetNames : LfoRemoveTarget(name)
    \/ \E d \in Depths : LfoSetDepth(d)
    \/ \E b \in BOOLEAN : LfoSetEnabled(b)
    \/ LfoBypass
    \/ LfoUnbypass
    \/ LfoProcess
    \/ \E n \in 1..MaxFrames : LfoGenerate(n)

SpecLfo == LfoInit /\ [][LfoNext]_vars

(***************************************************************************)
(* One oscillator generating buffer after buffer of a saw at a fixed      *)
(* frequency and detune: one step of 1/OscPeriod of a cycle per sample for *)
(* the fundamental, i steps for harmonic i.                                *)
(***************************************************************************)
OscInit ==
    /\ EnvAtRest
    /\ PoolAtRest
    /\ ThreadsAtRest
    /\ DspAtRest

\* the harmonics argument of generate: none, or full
HarmonicAmounts == {RZero, ROne}

\* _generate_base_waveform, 'saw': 2 * (x - floor(0.5 + x)) at x = q / OscPeriod
SawWave(q) ==
    LET r == q % OscPeriod
    IN  IF 2 * r < OscPeriod THEN Rat(2 * r, OscPeriod)
        ELSE Rat(2 * r - 2 * OscPeriod, OscPeriod)

\* sum of harmonic * (harmonics / i) over the harmonics from i on, harmonic i
\* at phase hp[i] + i * k
RECURSIVE HarmonicSum(_, _, _, _)
HarmonicSum(hp, harmonics, k, i) ==
    IF i > MaxHarmonic THEN RZero
    ELSE RAdd(RMul(SawWave(hp[i] + i * k), RMul(harmonics, Rat(1, i))),
              HarmonicSum(hp, harmonics, k, i + 1))

\* sample k (from 0) of a buffer generated from phase p and harmonic phases hp
OscSample(p, hp, harmonics, k) ==
    IF harmonics = RZero THEN SawWave(p + k)
    ELSE RAdd(SawWave(p + k), HarmonicSum(hp, harmonics, k, 2))

\* the phase a tracker at phase p with step d keeps after a buffer of
\* `samples`: t[-1] % (2 * pi), the phase of the buffer's last sample
PhaseAfter(p, d, samples) == (p + d * (samples - 1)) % OscPeriod

\* Oscillator.generate(frequency, 'saw', samples, detune, harmonics)
OscGenerate(samples, harmonics) ==
    /\ Len(oscOut.buf) + samples <= MaxSamples
    /\ LET p == osc.phase % OscPeriod
           hp == osc.harmonics_phases
       IN  /\ oscOut' =
                [calls |-> Append(oscOut.calls, <<samples, harmonics>>),
                 buf |-> oscOut.buf \o
                         [k \in 1..samples |-> OscSample(p, hp, harmonics, k - 1)]]
           /\ osc' =
                [phase |-> PhaseAfter(p, 1, samples),
                 harmonics_phases |->
                     [i \in Harmonics |->
                         IF harmonics = RZero THEN hp[i]
                         ELSE PhaseAfter(hp[i], i, samples)]]
    /\ UNCHANGED notOsc

OscNext == \E samples \in 1..MaxFrames, h \in HarmonicAmounts : OscGenerate(samples, h)

SpecOsc == OscInit /\ [][OscNext]_vars

(***************************************************************************)
(* The master effects chain: process_effects over STATE.fx_slots, with     *)
(* the slot types none and delay, on mono buffers of one sample.  The     *)
(* delay line is DelayLen samples long and is read FxDelay samples back.   *)
(***************************************************************************)
FxInit ==
    /\ EnvAtRest
    /\ PoolAtRest
    /\ ThreadsAtRest
    /\ DspAtRest

FxTypes == {"none", "delay"}

\* the mix slider: dry, half, wet
FxMixes == {RZero, RHalf, ROne}

\* the depth slider (the delay's feedback): none, full
FxDepths == {RZero, ROne}

\* the mono buffers handed to process_effects, within [-1, 1]
FxSignals == {<<RHalf>>, <<ROne>>}

\* int(params['rate'] * SAMPLE_RATE), the delay in samples
FxDelay == 1

\* _process_delay from sample i on; st = [out, buf, idx]
RECURSIVE ProcessDelay(_, _, _, _)
ProcessDelay(signal, feedback, i, st) ==
    IF i > Len(signal) THEN st
    ELSE LET delay_read_idx == (st.idx - FxDelay + (i - 1)) % DelayLen
             o == st.buf[delay_read_idx]
         IN  ProcessDelay(signal, feedback, i + 1,
                 [out |-> Append(st.out, o),
                  buf |-> [st.buf EXCEPT ![st.idx] = RAdd(signal[i], RMul(o, feedback))],
                  idx |-> (st.idx + 1) % DelayLen])

\* the dry/wet mix with the two weights exchanged
MixDryWet_Swapped(dry, wet, mix) ==
    [i \in 1..Len(dry) |->
        RAdd(RMul(dry[i], mix), RMul(wet[i], RSub(ROne, mix)))]

\* output * (1 - slot['mix']) + effect_out * slot['mix']
MixDryWet(dry, wet, mix) ==
    [i \in 1..Len(dry) |->
        RAdd(RMul(dry[i], RSub(ROne, mix)), RMul(wet[i], mix))]

\* the slot loop of process_effects from slot k on;
\* st = [output, buf, idx, trace]
RECURSIVE ProcessSlots(_, _, _)
ProcessSlots(slots, k, st) ==
    IF k > Len(slots) THEN st
    ELSE LET slot == slots[k] IN
         IF slot.type = "none"
         THEN ProcessSlots(slots, k + 1,
                  [st EXCEPT !.trace = Append(@, [type |-> slot.type, mix |-> slot.mix,
                                                  dry |-> st.output, wet |-> st.output,
                                                  out |-> st.output])])
         ELSE LET d == ProcessDelay(st.output, slot.depth, 1,
                                    [out |-> <<>>, buf |-> st.buf, idx |-> st.idx])
                  mixed == MixDryWet(st.output, d.out, slot.mix)
              IN  ProcessSlots(slots, k + 1,
                      [output |-> mixed, buf |-> d.buf, idx |-> d.idx,
                       trace |-> Append(st.trace, [type |-> slot.type, mix |-> slot.mix,
                                                   dry |-> st.output, wet |-> d.out,
                                                   out |-> mixed])])

\* np.clip(output, -1.0, 1.0)
ClipSignal(sig) == [i \in 1..Len(sig) |-> RClip(sig[i])]

\* _update_fx_param(slot, 'type', value)
FxSetType(k, t) ==
    /\ fx' = [fx EXCEPT !.slots[k].type = t]
    /\ fxOut' = FxIdle
    /\ UNCHANGED notFx

\* _update_fx_param(slot, 'mix', value)
FxSetMix(k, m) ==
    /\ fx' = [fx EXCEPT !.slots[k].mix = m]
    /\ fxOut' = FxIdle
    /\ UNCHANGED notFx

\* _update_fx_param(slot, 'depth', value)
FxSetDepth(k, d) ==
    /\ fx' = [fx EXCEPT !.slots[k].depth = d]
    /\ fxOut' = FxIdle
    /\ UNCHANGED notFx

\* Synthesizer.process_effects(signal)
ProcessEffects(signal) ==
    /\ fx.calls < MaxFxCalls
    /\ LET st == ProcessSlots(fx.slots, 1,
                     [output |-> signal, buf |-> fx.delay_buffer,
                      idx |-> fx.delay_index, trace |-> <<>>])
       IN  /\ fx' = [fx EXCEPT !.delay_buffer = st.buf, !.delay_index = st.idx,
                               !.calls = @ + 1]
           /\ fxOut' = [done |-> TRUE, signal |-> signal, trace |-> st.trace,
                        ret |-> ClipSignal(st.output)]
    /\ UNCHANGED notFx

FxNext ==
    \/ \E k \in 1..MaxSlots, t \in FxTypes : FxSetType(k, t)
    \/ \E k \in 1..MaxSlots, m \in FxMixes : FxSetMix(k, m)
    \/ \E k \in 1..MaxSlots, d \in FxDepths : FxSetDepth(k, d)
    \/ \E signal \in FxSignals : ProcessEffects(signal)

SpecFx == FxInit /\ [][FxNext]_vars

(***************************************************************************)
(* Envelope claims, checked under SpecEnv.                                 *)
(***************************************************************************)
\* the state changes one processed sample may make
ProcessEdges == {<<"attack", "decay">>, <<"decay", "sustain">>, <<"release", "idle">>}

StepPairs == ProcessEdges \cup {<<s, s>> : s \in EnvStates}

\* the state changes n processed samples may make: paths of at most n edges
RECURSIVE PathPairs(_)
PathPairs(n) ==
    IF n <= 1 THEN StepPairs
    ELSE {<<x[1][1], x[2][2]>> :
             x \in {y \in PathPairs(n - 1) \X StepPairs : y[1][2] = y[2][1]}}

\* C8: the envelope state changes only along attack->decay, decay->sustain and
\* release->idle in process() (one edge at most per processed sample; sustain and
\* idle are never left), any state -> attack in gate_on(), and attack, decay or
\* sustain -> release in gate_off(); gate_off() changes no other state.
C8_EnvelopeEdges ==
    /\ envLast.op = "process" =>
          <<envLast.from, adsr.state>> \in PathPairs(envLast.frames)
    /\ envLast.op = "gate_on" => adsr.state = "attack"
    /\ envLast.op = "gate_off" =>
          adsr.state = IF envLast.from \in {"attack", "decay", "sustain"}
                       THEN "release" ELSE envLast.from

\* C8 witness: a process() call has taken the envelope from release to idle
C8_Witness ==
    /\ envLast.op = "process"
    /\ envLast.from = "release"
    /\ adsr.state = "idle"

\* C9 as claimed: after gate_off() in attack, decay or sustain at level L, absent
\* a further gate_on, every level is at most L, decay and sustain are not visited
\* and the envelope is idle with level 0 once exactly `release` samples have been
\* processed (and not before).
C9_ReleaseAsClaimed ==
    rel.on =>
        /\ RLe(rel.hi, rel.L)
        /\ rel.visited \subseteq {"release", "idle"}
        /\ (adsr.state = "idle") <=> (rel.n >= adsr.release)
        /\ adsr.state = "idle" => adsr.current_level = RZero

\* C9 amended: gate_off() in attack, decay or sustain at level L puts the envelope
\* in release with release start level L; absent a further gate_on every level
\* produced afterwards is at most L and decay and sustain are not visited; absent
\* a further gate_on or gate_off the envelope is still in release after `release`
\* processed samples and is idle with level 0 from the next one on, the sample of
\* index `release`.
C9_ReleaseFromAnywhere ==
    rel.on =>
        /\ RLe(rel.hi, rel.L)
        /\ rel.visited \subseteq {"release", "idle"}
        /\ (envLast.op = "gate_off" /\ envLast.from \in {"attack", "decay", "sustain"}) =>
              /\ adsr.state = "release"
              /\ adsr.release_level = rel.L
              /\ adsr.elapsed_samples = 0
        /\ ~rel.again => ((adsr.state = "idle") <=> (rel.n >= adsr.release + 1))
        /\ adsr.state = "idle" => adsr.current_level = RZero

\* C9 witness: a release started in attack, decay or sustain at a non-zero level
\* has run undisturbed to idle, which it reached on the sample of index `release`
C9_Witness ==
    /\ rel.on
    /\ ~rel.again
    /\ rel.L # RZero
    /\ rel.L # ROne
    /\ rel.n = adsr.release + 1
    /\ adsr.state = "idle"

\* C10 as claimed: gate_on() puts the envelope in attack at once, and the attack
\* ramp that follows starts from the level L the envelope had at gate_on: the
\* first sample processed after gate_on has level L.
C10_RetriggerFromCurrentLevel ==
    /\ envLast.op = "gate_on" => adsr.state = "attack"
    /\ retrig.seen => retrig.first = retrig.L

\* C11 as claimed: after gate_on() in idle the levels produced by process()
\* contain a sample equal to exactly 1.0, at an index between attack - 10 and
\* attack + 1 (attack being the number of attack samples): once attack + 2
\* samples have been produced that sample has been seen, at such an index.
C11_AttackReachesOne ==
    (peak.on /\ peak.n >= adsr.attack + 2) =>
        /\ peak.at # -1
        /\ peak.at >= adsr.attack - 10
        /\ peak.at <= adsr.attack + 1

\* a process() step leaves an envelope in sustain there, at the sustain level
C12_Step ==
    (adsr.state = "sustain" /\ envLast'.op = "process") =>
        (adsr'.state = "sustain" /\ adsr'.current_level = adsr'.sustain)

\* C12: decay lasts no longer than its `decay` samples and is followed by
\* sustain; from the sample after the one that made the change the level is
\* exactly the sustain parameter; and process() keeps an envelope in sustain
\* there at that level, however many samples it processes.
C12_SustainHolds ==
    /\ [](adsr.state = "decay" => adsr.elapsed_samples <= adsr.decay)
    /\ [](adsr.state = "sustain" =>
            /\ adsr.elapsed_samples >= adsr.decay + 1
            /\ adsr.elapsed_samples >= adsr.decay + 2 =>
                  adsr.current_level = adsr.sustain)
    /\ [][C12_Step]_vars

\* C12 witness: process() called in sustain has left the envelope in sustain,
\* samples after the end of a decay that did not end on the sustain level
C12_Witness ==
    /\ adsr.state = "sustain"
    /\ envLast.op = "process"
    /\ envLast.from = "sustain"
    /\ adsr.sustain = RHalf
    /\ adsr.current_level = adsr.sustain
    /\ adsr.elapsed_samples >= adsr.decay + 3

(***************************************************************************)
(* Voice pool claims, checked under SpecPool.                              *)
(***************************************************************************)
\* voice k after the step holds the note event just handled, freshly gated on
Assigned(k) ==
    /\ voices'[k].note = poolLast'.note
    /\ voices'[k].velocity = Rat(poolLast'.velocity, 127)
    /\ voices'[k].active
    /\ voices'[k].adsr.state = "attack"
    /\ voices'[k].adsr.elapsed_samples = 0

\* every voice but k is left as it was
OthersKept(k) == \A j \in 1..Len(voices) : j # k => voices'[j] = voices[j]

C1_Step ==
    (poolLast'.op = "note_on" /\ \A i \in 1..Len(voices) : voices[i].active) =>
        \E k \in 1..Len(voices) :
            /\ \A j \in 1..Len(voices) : voices[k].note <= voices[j].note
            /\ \A j \in 1..(k - 1) : voices[k].note < voices[j].note
            /\ poolLast'.voice = k
            /\ Assigned(k)
            /\ OthersKept(k)

C2_Step ==
    (poolLast'.op = "note_on" /\ \E i \in 1..Len(voices) : ~voices[i].active) =>
        \E k \in 1..Len(voices) :
            /\ ~voices[k].active
            /\ \A j \in 1..(k - 1) : voices[j].active
            /\ poolLast'.voice = k
            /\ ~poolLast'.stole
            /\ Assigned(k)
            /\ OthersKept(k)

\* C2: with at least one voice inactive, note_on(n, v) assigns the note to the
\* first inactive voice in pool order and leaves every active voice as it was.
C2_FirstInactive == [][C2_Step]_vars

\* C2 witness: a note_on went to the second voice while the first stayed active
C2_Witness ==
    /\ poolLast.op = "note_on"
    /\ ~poolLast.stole
    /\ poolLast.voice = 2
    /\ voices[1].active

\* C3: note_on never fails for lack of a free voice: after note_on(n, v) some
\* voice has note n, velocity v/127, active = true and its envelope in attack
\* with the elapsed-sample counter at 0.
C3_NoteOnNeverFails ==
    /\ poolLast.op # "note_on_error"
    /\ poolLast.op = "note_on" =>
          \E i \in 1..Len(voices) :
              /\ voices[i].note = poolLast.note
              /\ voices[i].velocity = Rat(poolLast.velocity, 127)
              /\ voices[i].active
              /\ voices[i].adsr.state = "attack"
              /\ voices[i].adsr.elapsed_samples = 0

\* C3 witness: a note_on served with no voice free
C3_Witness ==
    /\ poolLast.op = "note_on"
    /\ poolLast.stole
    /\ \A i \in 1..Len(voices) : voices[i].active

\* the pool after gate_off on the first voice of M (the pool itself for no voice)
ReleasedFirst(M) ==
    IF M = {} THEN voices
    ELSE LET k == CHOOSE i \in M : \A j \in M : i <= j
         IN  [voices EXCEPT ![k].adsr = gate_off(voices[k].adsr)]

C4_StepAsClaimed ==
    poolLast'.op = "note_off" =>
        voices' = ReleasedFirst({i \in 1..Len(voices) : voices[i].note = poolLast'.note})

\* C4 as claimed: note_off(n) calls gate_off on the first voice in pool order
\* whose note equals n and on no other voice, and changes nothing else.
C4_NoteOffFirstMatch == [][C4_StepAsClaimed]_vars

C4_Step ==
    poolLast'.op = "note_off" =>
        /\ voices' = ReleasedFirst({i \in 1..Len(voices) :
                                       voices[i].note = poolLast'.note /\ voices[i].active})
        /\ \A i \in 1..Len(voices) :
              /\ voices'[i].active = voices[i].active
              /\ voices'[i].note = voices[i].note
              /\ voices'[i].velocity = voices[i].velocity

\* C4 amended: note_off(n) calls gate_off on the first voice in pool order that
\* is active and whose note equals n, and on no other voice; it leaves every
\* voice's active flag, note and velocity unchanged, and it is a no-op when no
\* active voice holds n.
C4_NoteOffFirstActiveMatch == [][C4_Step]_vars

\* C4 witness: note_off released the second voice, the first holding the same
\* note but being inactive
C4_Witness ==
    /\ poolLast.op = "note_off"
    /\ poolLast.voice = 2
    /\ voices[1].note = poolLast.note
    /\ ~voices[1].active
    /\ voices[2].adsr.state = "release"

\* C5 as claimed: after reset_all_voices() every voice is inactive, holds no
\* note, has velocity 0 and has its envelope in state idle.
C5_ResetAllIdle ==
    poolLast.op = "reset_all_voices" =>
        \A i \in 1..Len(voices) :
            /\ ~voices[i].active
            /\ voices[i].note = None
            /\ voices[i].velocity = RZero
            /\ voices[i].adsr.state = "idle"

\* C13: between operations no voice is both active and envelope-idle: a voice
\* whose envelope is idle, whichever way Voice.process returned, has active
\* false and so is a free voice for the allocator.
C13_IdleIsInactive ==
    \A i \in 1..Len(voices) :
        voices[i].adsr.state = "idle" =>
            (~voices[i].active /\ HasFree(voices))

\* C13 witness: a render has taken a released voice to idle and deactivated it,
\* its note still in place
C13_Witness ==
    /\ poolLast.op = "render"
    /\ \E i \in 1..Len(voices) :
          /\ voices[i].note # None
          /\ voices[i].adsr.state = "idle"
          /\ ~voices[i].active

(***************************************************************************)
(* Mix claims, checked under SpecMix.                                      *)
(***************************************************************************)
\* the sum of the output levels of the voices in S
RECURSIVE LevelSum(_)
LevelSum(S) ==
    IF S = {} THEN RZero
    ELSE LET i == CHOOSE j \in S : TRUE
         IN  RAdd(mixIn.v[i].out, LevelSum(S \ {i}))

ActiveVoices == {i \in 1..MaxVoices : mixIn.v[i].active}

SoundingVoices == {i \in ActiveVoices : mixIn.v[i].out # RZero}

\* x / max(1, k)
Over(x, k) == IF k > 1 THEN Rat(x[1], x[2] * k) ELSE x

\* C14 as claimed: the summed voice signal is divided by max(1, number of
\* active voices), an active voice of all-zero output counting too; k active
\* voices of constant 1.0 mix to 1.0 before the clip.
C14_DividedByActive ==
    mixOut.done =>
        /\ mixOut.pre = Over(LevelSum(ActiveVoices), Cardinality(ActiveVoices))
        /\ (ActiveVoices # {} /\ \A i \in ActiveVoices : mixIn.v[i].out = ROne) =>
              mixOut.pre = ROne

\* C14 amended: the summed voice signal is divided by max(1, number of active
\* voices whose buffer has a non-zero sample), an active voice of all-zero
\* output not counting; k active voices of constant 1.0 mix to 1.0 before the
\* clip.
C14_DividedBySounding ==
    mixOut.done =>
        /\ mixOut.pre = Over(LevelSum(ActiveVoices), Cardinality(SoundingVoices))
        /\ mixOut.count = Cardinality(SoundingVoices)
        /\ (ActiveVoices # {} /\ \A i \in ActiveVoices : mixIn.v[i].out = ROne) =>
              mixOut.pre = ROne

\* C14 witness: a callback has mixed two active voices, one of constant 1.0 and
\* one of all zeros, to 1.0
C14_Witness ==
    /\ mixOut.done
    /\ Cardinality(ActiveVoices) >= 2
    /\ \E i \in ActiveVoices : mixIn.v[i].out = RZero
    /\ \E i \in ActiveVoices : mixIn.v[i].out = ROne
    /\ mixOut.pre = ROne

(***************************************************************************)
(* Signal chain claims, checked under SpecChain.                           *)
(***************************************************************************)
\* stage x acted on the output of the last Voice.process
Acted(x) == \E i \in 1..Len(chainOut.sig) : chainOut.sig[i] = x

\* C15: for each of the stages oscillators, noise/sub, envelope and filter, a
\* bypassed stage is skipped and a disabled stage contributes nothing (neither
\* acts on the voice output), and every other stage runs exactly when its own
\* flags say so, in the order of the chain: the signal is passed on unchanged
\* past a stage that does not run, and no stage's flags change whether another
\* stage runs.
C15_StageGating ==
    chainOut.done =>
        /\ \A x \in StageSet :
              /\ chainFlags.bypass[x] => ~Acted(x)
              /\ ~chainFlags.enabled[x] => ~Acted(x)
              /\ (chainFlags.enabled[x] /\ ~chainFlags.bypass[x]) => Acted(x)
        /\ chainOut.sig = SelectSeq(Stages,
                               LAMBDA x : chainFlags.enabled[x] /\ ~chainFlags.bypass[x])

\* C15 witness: a voice was processed with the oscillators disabled and the
\* envelope bypassed, and noise/sub and filter, downstream of them, both ran
C15_Witness ==
    /\ chainOut.done
    /\ ~chainFlags.enabled["oscillators"]
    /\ chainFlags.bypass["envelope"]
    /\ chainOut.sig = <<"noise_sub", "filter">>

(***************************************************************************)
(* LFO claims, checked under SpecLfo.                                      *)
(***************************************************************************)
LfoSteps == {"generate", "process"}

\* a generate() or process() call on a bypassed LFO writes nothing, raises
\* nothing and leaves the LFO, its targets and their base values as they were
C16_BypassedIsSilent ==
    [][(lfoLast'.op \in LfoSteps /\ lfo.bypassed) =>
           /\ lfoCfg' = lfoCfg
           /\ lfo' = lfo
           /\ lfoLast'.wrote = {}
           /\ ~lfoLast'.raised]_vars

\* C16: while the LFO is bypassed no generate() or process() call writes a
\* value into the shared configuration or changes the registered targets or
\* their base values, and the first generate() or process() after unbypass()
\* writes every registered target again.
C16_BypassStopsWritesAndResumes ==
    [][lfoLast'.op \in LfoSteps =>
           /\ lfo'.targets = lfo.targets
           /\ lfo.bypassed => (lfoCfg' = lfoCfg /\ lfoLast'.wrote = {})
           /\ (lfoLast'.prev = "unbypass" /\ ~lfo.bypassed) =>
                  /\ ~lfoLast'.raised
                  /\ lfoLast'.wrote = TargetKeys(lfo.targets)]_vars

\* a bypassed step happened with targets registered and a modulated entry
C16_Witness ==
    /\ lfoLast.op \in LfoSteps
    /\ lfo.bypassed
    /\ Len(lfo.targets) = 2
    /\ lfoCfg["filter_cutoff"] # ROne

\* what remove_target(name) does: the entry's value stays, every other target
\* stays with its base and its place, the name is no longer registered
RemoveStep ==
    lfoLast'.op = "remove_target" =>
        /\ lfoCfg' = lfoCfg
        /\ lfoLast'.name \notin TargetKeys(lfo'.targets)
        /\ \A i \in 1..Len(lfo.targets) :
              lfo.targets[i].name # lfoLast'.name =>
                  \E j \in 1..Len(lfo'.targets) : lfo'.targets[j] = lfo.targets[i]
        /\ Len(lfo'.targets) =
              Len(lfo.targets) - (IF lfoLast'.name \in TargetKeys(lfo.targets) THEN 1 ELSE 0)
        /\ lfoLast'.name \notin TargetKeys(lfo.targets) => lfo' = lfo

\* C17: after remove_target(name) no generate() or process() call writes the
\* configuration entry name until add_target(name, ...) registers it again
\* (a step writes registered names only, and only add_target(name) registers
\* name); remove_target leaves the entry's value and all other targets
\* unchanged, and removing an unregistered name changes nothing.
C17_RemovedTargetIsIndependent ==
    /\ [][RemoveStep]_vars
    /\ [][lfoLast'.op \in LfoSteps =>
              /\ lfoLast'.wrote \subseteq TargetKeys(lfo.targets)
              /\ \A n \in DOMAIN lfoCfg :
                    n \notin TargetKeys(lfo.targets) => lfoCfg'[n] = lfoCfg[n]]_vars
    /\ [][\A n \in TargetKeys(lfo'.targets) \ TargetKeys(lfo.targets) :
              lfoLast'.op = "add_target" /\ lfoLast'.name = n]_vars

\* C17 witness: filter_cutoff was modulated, then removed while another
\* target stayed registered, and the generate() that followed wrote nothing
C17_Witness ==
    /\ lfoLast.op = "generate"
    /\ lfoLast.prev = "remove_target"
    /\ ~lfo.bypassed
    /\ TargetKeys(lfo.targets) = {"pan", "osc_mix_0"}
    /\ lfoCfg["filter_cutoff"] # ROne
    /\ lfoLast.wrote = {}

\* clamp(baseValue + lfoValue * depth * rangeScale, min, max) with rangeScale
\* half the width of the target's parameter range
Modulated(l, t, raw) ==
    LET min_val == PARAMETER_RANGES[t.type][1]
        max_val == PARAMETER_RANGES[t.type][2]
    IN  RClipTo(RAdd(t.base, RMul(RMul(raw, l.depth), Rat(max_val - min_val, 2))),
                Rat(min_val, 1), Rat(max_val, 1))

\* C18: every generate() and process() step of an LFO that is not bypassed
\* completes without error, and for every registered target with a parameter
\* range stores clamp(base + lfo * depth * rangeScale, min, max) under the
\* target's name: centred on the registered base, within [min, max].
C18_StepStoresClampedValue ==
    [][(lfoLast'.op \in LfoSteps /\ ~lfo.bypassed) =>
           /\ ~lfoLast'.raised
           /\ \A i \in 1..Len(lfo.targets) :
                 LET t == lfo.targets[i] IN
                 (t.name \in DOMAIN lfoCfg /\ t.type \in DOMAIN PARAMETER_RANGES) =>
                     lfoCfg'[t.name] =
                         Modulated(lfo, t,
                                   Saw(IF lfoLast'.op = "process" THEN lfo.phase
                                       ELSE lfo'.phase))]_vars

(***************************************************************************)
(* Oscillator claims, checked under SpecOsc.                               *)
(***************************************************************************)
\* every generate so far was called with harmonics h
AllCallsWith(h) == \A c \in 1..Len(oscOut.calls) : oscOut.calls[c][2] = h

\* C19: with frequency, waveform, detune and harmonics fixed, after the
\* buffers generated so far (n samples in all) the fundamental has advanced by
\* exactly n steps and harmonic i by n times its step, and the buffers one
\* after the other are the n samples of a single generate(n): the first
\* sample of a buffer is one step after the last sample of the buffer before.
C19_PhaseContinuity ==
    \A h \in HarmonicAmounts :
        AllCallsWith(h) =>
            LET n == Len(oscOut.buf) IN
            /\ osc.phase = n % OscPeriod
            /\ h # RZero =>
                  \A i \in Harmonics : osc.harmonics_phases[i] = (i * n) % OscPeriod
            /\ \A k \in 1..n :
                  oscOut.buf[k] =
                      OscSample(0, NewOscillator.harmonics_phases, h, k - 1)

(***************************************************************************)
(* Effects claims, checked under SpecFx.                                   *)
(***************************************************************************)
\* the signal slot k was fed: the chain's input, or the mixed output of the
\* slot before it
FedTo(k) == IF k = 1 THEN fxOut.signal ELSE fxOut.trace[k - 1].out

\* every slot ran in list order on the mixed output of the slot before it; a
\* slot of type none or with mix 0 passed its input on unchanged and a slot
\* with mix 1 passed on exactly its wet signal
SlotLaw ==
    /\ Len(fxOut.trace) = MaxSlots
    /\ \A k \in 1..Len(fxOut.trace) :
          LET s == fxOut.trace[k] IN
          /\ s.type = fx.slots[k].type /\ s.mix = fx.slots[k].mix
          /\ s.dry = FedTo(k)
          /\ s.type = "none" => s.out = s.dry
          /\ s.mix = RZero => s.out = s.dry
          /\ (s.type # "none" /\ s.mix = ROne) => s.out = s.wet

\* C20: for every effect type, process_effects with the slot's mix = 0
\* returns the slot's input unchanged and with mix = 1 returns exactly the
\* effect's wet signal; slots of type none leave the signal unchanged, and
\* slots are applied in list order, each fed the previous slot's mixed output:
\* what process_effects returns is the last slot's mixed output.
C20_DryWetAsReturned ==
    fxOut.done => (SlotLaw /\ fxOut.ret = fxOut.trace[MaxSlots].out)

\* C20 as amended: the dry/wet law holds for each slot's mixed output, and
\* process_effects returns the last slot's mixed output clipped to [-1, 1].
C20_DryWetThenClip ==
    fxOut.done => (SlotLaw /\ fxOut.ret = ClipSignal(fxOut.trace[MaxSlots].out))

\* C20 witness: a fully wet delay slot whose wet signal differs from its
\* input and lies above 1.0, followed by a dry delay slot whose wet signal
\* differs from its input
C20_Witness ==
    /\ fxOut.done
    /\ fxOut.trace[1].type = "delay" /\ fxOut.trace[1].mix = ROne
    /\ fxOut.trace[1].wet # fxOut.trace[1].dry
    /\ RLt(ROne, fxOut.trace[1].wet[1])
    /\ fxOut.trace[2].type = "delay" /\ fxOut.trace[2].mix = RZero
    /\ fxOut.trace[2].wet # fxOut.trace[2].dry
    /\ fxOut.ret # fxOut.trace[MaxSlots].out

(***************************************************************************)
(* Threading claims, checked under SpecThreads.                            *)
(***************************************************************************)
\* the steps of kill(): stop(), reset_all_voices(), start() and the restart of
\* the monitors
KillSteps ==
    {"kill_stop", "reset_acquire", "reset_body", "kill_start", "restart_reset",
     "restart_monitors"}

\* C21: the engine never stops, resets or restarts the audio stream on its own
\* when an output underrun is reported: the audio callback never runs a step
\* of kill(), stop(), reset_all_voices() or start(); only the operator's call
\* does.
C21_NoAutomaticRestart == pc["audio"] \notin KillSteps

\* C22: if opening or starting the output stream fails inside start(), the
\* failure is reported to the caller as an error outcome: the step at which the
\* stream fails ends the caller's call, and with an error for the callback.
C22_StartFailureReported ==
    [][(stream' = "failed" /\ stream # "failed") =>
           \A t \in {"audio", "gui"} :
               pc[t] = "kill_start" =>
                   /\ pc'[t] = "idle"
                   /\ t = "audio" => cb'.result = "raised"]_vars

\* thread t is inside the locked body of note_on, note_off or reset_all_voices
InHandler(t) ==
    \/ t = "midi" /\ pc[t] \in {"note_on_body", "note_off_body"}
    \/ pc[t] = "reset_body"

\* C26: a render in the audio callback never observes a half-applied note
\* event: note_on, note_off and reset_all_voices run their bodies holding the
\* lock, the callback renders holding it, so no handler is inside its body
\* while a render is in progress and every voice write of a handler is made
\* under the lock, outside any render.
C26_NoteEventsAtomic ==
    /\ Rendering => lock = "audio"
    /\ \A t \in Threads : InHandler(t) => (lock = t /\ (t # "audio" => ~Rendering))
    /\ (wr.thread = "midi" /\ wr.target = "voices") => (wr.locked /\ ~wr.rendering)

\* C26 witness: note_on is inside its body, having written nothing yet, while
\* the callback waits for the lock; and a callback renders while a note
\* handler's write lies behind
C26_Witness ==
    /\ pc["midi"] = "note_on_body"
    /\ pc["audio"] = "acquire"
    /\ wr.thread = "audio"

\* thread t waits for the Synthesizer lock
Waits(t) == pc[t] = (IF t = "audio" THEN "acquire" ELSE "reset_acquire")

\* C29: the engine lock cannot deadlock: no thread asks for the lock while it
\* holds it (the callback's underrun path through kill, stop and
\* reset_all_voices included), the callback gives the lock back when its body
\* raises, and under fair scheduling every holder releases the lock and every
\* thread that waits for it obtains it.
C29_NoDeadlock ==
    /\ [](\A t \in Threads : (Waits(t) \/ pc[t] = "idle") => lock # t)
    /\ [](pc["audio"] \in KillSteps \ {"reset_body"} => lock # "audio")
    /\ [](pc["audio"] = "except" => lock # "audio")
    /\ \A t \in Threads : (lock = t) ~> (lock # t)
    /\ \A t \in {"audio", "gui"} : (pc[t] = "reset_acquire") ~> (pc[t] = "reset_body")
    /\ (pc["audio"] = "acquire") ~> (pc["audio"] = "lfo")

\* C29 witness: the callback, on its underrun path, waits in
\* reset_all_voices for the lock that note_on holds, while the control
\* surface's kill waits for it too
C29_Witness ==
    /\ pc["audio"] = "reset_acquire"
    /\ pc["gui"] = "reset_acquire"
    /\ lock = "midi"

\* C6 as claimed: no invocation of the audio callback lets an exception escape:
\* whenever a fault was raised at any step of an invocation that has ended
\* (the handling of an output underflow included), the callback returned
\* normally and the output buffer is filled with silence.
C6_CallbackNeverRaises ==
    (cb.faulted /\ cb.result # "running") =>
        (cb.result = "returned" /\ cb.outdata = "silence")

\* C7 as claimed: every write to a voice or to the shared configuration made by
\* the callback or by a control-event handler is made by a thread that holds the
\* Synthesizer lock, and none is made by another thread while a render is in
\* progress.
C7_WritesUnderLock ==
    wr.target # "none" => (wr.locked /\ ~wr.rendering)

(***************************************************************************)
(* Filter (src/src/audio.py).  The coefficients and the two-sample memory    *)
(* of each stage are floating-point numbers that no branch of process()     *)
(* tests; the model keeps the parameters, the branch taken on the filter     *)
(* type, the number of stages and the length of the buffer returned.        *)
(***************************************************************************)
CutoffMin == Rat(1, 100)

CutoffMax == Rat(99, 100)

ResonanceMax == Rat(99, 100)

SteepnessMax == Rat(4, 1)

\* the filter types process() has coefficients for
KnownFilterTypes == {"lowpass", "highpass", "bandpass"}

\* values a caller may pass as cutoff or resonance
FilterAmounts == {Rat(-1, 1), RZero, RHalf, ROne, Rat(2, 1)}

\* values a caller may pass as steepness
Steepnesses == {RZero, ROne, Rat(5, 2), Rat(4, 1), Rat(5, 1)}

\* values a caller may pass as filter_type
FilterTypes == KnownFilterTypes \cup {"notch"}

\* int(self.steepness)
FilterStages(f) == f.steepness[1] \div f.steepness[2]

\* Filter.set_parameters
SetFilterParameters(f, cutoff, resonance, filter_type, steepness) ==
    [cutoff |-> RClipTo(cutoff, CutoffMin, CutoffMax),
     resonance |-> RClipTo(resonance, RZero, ResonanceMax),
     filter_type |-> filter_type,
     steepness |-> RClipTo(steepness, ROne, SteepnessMax)]

\* Filter.process reaches "b0 /= a0" with b0 unbound when no branch matched
FilterRaises(f) == f.filter_type \notin KnownFilterTypes

FilterInit ==
    /\ EnvAtRest
    /\ PoolAtRest
    /\ ThreadsAtRest
    /\ MixAtRest /\ ChainAtRest /\ LfoAtRest /\ OscAtRest /\ FxAtRest
    /\ DlyAtRest /\ CfgAtRest
    /\ FiltAtRest

FilterSetParameters(cutoff, resonance, filter_type, steepness) ==
    /\ filt' = SetFilterParameters(filt, cutoff, resonance, filter_type, steepness)
    /\ filtLast' = [op |-> "set_parameters", raised |-> FALSE,
                    inlen |-> 0, outlen |-> 0, stages |-> 0]
    /\ UNCHANGED notFilt

\* process() on a buffer of n samples
FilterProcess(n) ==
    /\ filtLast' = IF FilterRaises(filt)
                   THEN [op |-> "process", raised |-> TRUE,
                         inlen |-> n, outlen |-> 0, stages |-> 0]
                   ELSE [op |-> "process", raised |-> FALSE,
                         inlen |-> n, outlen |-> n, stages |-> FilterStages(filt)]
    /\ UNCHANGED <<filt, notFilt>>

FilterNext ==
    \/ \E c \in FilterAmounts, r \in FilterAmounts, ty \in FilterTypes, st \in Steepnesses :
          FilterSetParameters(c, r, ty, st)
    \/ \E n \in 1..MaxFrames : FilterProcess(n)

SpecFilter == FilterInit /\ [][FilterNext]_vars

\* the ranges the filter is to keep its parameters in
FilterInRange ==
    /\ RLe(CutoffMin, filt.cutoff) /\ RLe(filt.cutoff, CutoffMax)
    /\ RLe(RZero, filt.resonance) /\ RLe(filt.resonance, ResonanceMax)
    /\ FilterStages(filt) \in 1..4
    /\ filt.filter_type \in KnownFilterTypes

\* C23: the filter has no error states: in every reachable state, the one
\* before the first set_parameters included, the cutoff is within [0.01, 0.99],
\* the resonance within [0, 0.99], the stage count within 1..4 and the type one
\* of low-pass, high-pass and band-pass, and every process() completes and
\* returns a buffer of the length of its input
C23_FilterNoErrorStates ==
    /\ FilterInRange
    /\ filtLast.op = "process" => ~filtLast.raised /\ filtLast.outlen = filtLast.inlen

(***************************************************************************)
(* The envelope sample by sample.  The stage of a sample is the branch of   *)
(* the loop of ADSR.process that produced it, that is, the state the         *)
(* envelope was in when the iteration began.                                *)
(***************************************************************************)
\* the length of the stage the envelope is in, in samples; sustain and idle
\* have none
StageSamples(e) ==
    CASE e.state = "attack" -> e.attack
      [] e.state = "decay" -> e.decay
      [] e.state = "release" -> e.release
      [] OTHER -> -1

\* the next sample leaves the stage only if the stage has run its length
StageChangeOnTime(e) ==
    EnvProcessSample(e).state # e.state =>
        /\ StageSamples(e) # -1
        /\ e.elapsed_samples >= StageSamples(e)

\* the levels x then y of two consecutive samples of one stage move the way
\* the stage prescribes
StageOrder(stage, x, y) ==
    CASE stage = "attack" -> RLe(x, y)
      [] stage \in {"decay", "release"} -> RLe(y, x)
      [] OTHER -> x = y

\* the next two samples of the envelope, with or without a gate_off between
\* them, when both are produced by the same stage
NextPairInOrder(e) ==
    LET s1 == EnvProcessSample(e)
    IN  \A e2 \in {s1, gate_off(s1)} :
           e2.state = e.state =>
              StageOrder(e.state, s1.current_level,
                         EnvProcessSample(e2).current_level)

DelaySignals ==
    UNION {[1..n -> {RHalf, ROne}] : n \in 1..MaxFrames}

DelayInit ==
    /\ EnvAtRest
    /\ PoolAtRest
    /\ ThreadsAtRest
    /\ MixAtRest /\ ChainAtRest /\ LfoAtRest /\ OscAtRest /\ FxAtRest
    /\ FiltAtRest /\ CfgAtRest
    /\ DlyAtRest

\* _process_delay(signal, params) with params['depth'] = feedback
DelayProcess(signal, feedback) ==
    /\ Len(dly.outputs) + Len(signal) <= MaxDelayed
    /\ LET st == ProcessDelay(signal, feedback, 1,
                              [out |-> <<>>, buf |-> dly.buffer, idx |-> dly.index])
       IN  dly' = [buffer |-> st.buf,
                   index |-> st.idx,
                   written |-> dly.written \o
                               [i \in 1..Len(signal) |->
                                   RAdd(signal[i], RMul(st.out[i], feedback))],
                   outputs |-> dly.outputs \o st.out]
    /\ UNCHANGED notDly

DelayNext ==
    \E signal \in DelaySignals, feedback \in FxDepths : DelayProcess(signal, feedback)

SpecDelay == DelayInit /\ [][DelayNext]_vars

\* C25: the delay is one circular line with a constant delay: every output
\* sample is the value written exactly delay_samples writes before it, 0 while
\* fewer writes than that have been made, within a call as across calls, and
\* the write index stays within the line and advances by one per input sample
C25_ConstantDelay ==
    /\ FxDelay \in 1..(DelayLen - 1)
    /\ \A k \in 1..Len(dly.outputs) :
          dly.outputs[k] = IF k - FxDelay >= 1 THEN dly.written[k - FxDelay]
                           ELSE RZero
    /\ dly.index \in 0..(DelayLen - 1)
    /\ dly.index = Len(dly.written) % DelayLen

(***************************************************************************)
(* STATE.adsr and the envelope of a voice (src/src/gui.py, src/src/midi.py,  *)
(* src/src/core.py, src/src/audio.py).                                      *)
(***************************************************************************)
\* 0.001 seconds, the shortest stage set_parameters accepts, in samples
MinStage == 1

\* the values the envelope sliders and the MIDI controllers write
AdsrValues ==
    [attack |-> 0..MaxStage, decay |-> 0..MaxStage,
     sustain |-> SustainLevels, release |-> 0..MaxStage]

\* ADSR.set_parameters
set_parameters(e, attack, decay, sustain, release) ==
    [e EXCEPT !.attack = IF attack < MinStage THEN MinStage ELSE attack,
              !.decay = IF decay < MinStage THEN MinStage ELSE decay,
              !.sustain = RClipTo(sustain, RZero, ROne),
              !.release = IF release < MinStage THEN MinStage ELSE release]

CfgInit ==
    /\ EnvAtRest
    /\ PoolAtRest
    /\ ThreadsAtRest
    /\ DspAtRest

\* SynthesizerGUI._update_adsr and MIDIHandler._handle_cc:
\* STATE.adsr[param] = value
UpdateAdsr(param, value) ==
    /\ stateAdsr' = [stateAdsr EXCEPT ![param] = value]
    /\ UNCHANGED <<notCfg>>

\* the GUI and MIDI threads writing STATE.adsr while the voice is gated and
\* rendered (process_voice calls adsr.process(frames) and nothing else of the
\* envelope)
CfgNext ==
    \/ \E param \in DOMAIN AdsrValues : \E value \in AdsrValues[param] :
          UpdateAdsr(param, value)
    \/ EnvGateOn
    \/ EnvGateOff
    \/ \E n \in 1..MaxFrames : EnvProcessCall(n)

SpecCfg == CfgInit /\ [][CfgNext]_vars

\* the envelope holds the parameters set_parameters would give it from cfg
UsesParameters(e, cfg) ==
    LET p == set_parameters(e, cfg.attack, cfg.decay, cfg.sustain, cfg.release)
    IN  /\ e.attack = p.attack
        /\ e.decay = p.decay
        /\ e.sustain = p.sustain
        /\ e.release = p.release

\* C30: the values written to STATE.adsr take effect: every render made once
\* STATE.adsr has been written runs the envelope of the voice with the written
\* attack, decay, sustain and release, the durations floored at 1 ms
C30_WrittenAdsrTakesEffect ==
    [][(/\ envLast'.op = "process"
        /\ stateAdsr' = stateAdsr
        /\ stateAdsr # DefaultStateAdsr)
       => UsesParameters(adsr', stateAdsr)]_vars

(***************************************************************************)
(* Keys and voices (src/src/core.py): note_on and note_off as a keyboard    *)
(* sends them, a note_off only for a key that is down, and the callback      *)
(* rendering the pool for as long as the stream runs.                       *)
(***************************************************************************)
NotesInit ==
    /\ EnvAtRest
    /\ ThreadsAtRest
    /\ DspAtRest
    /\ PoolAtRest

\* a key goes down: note_on(note, velocity)
KeyDown(note) ==
    /\ held[note] < MaxHeld
    /\ \E v \in Velocities : NoteOn(note, v)
    /\ held' = [held EXCEPT ![note] = @ + 1]

\* a key that is down goes up: note_off(note)
KeyUp(note) ==
    /\ held[note] > 0
    /\ NoteOff(note)
    /\ held' = [held EXCEPT ![note] = @ - 1]

\* one callback of one frame
RenderFrame == Render(1) /\ UNCHANGED held

NotesNext ==
    \/ \E n \in Notes : KeyDown(n)
    \/ \E n \in Notes : KeyUp(n)
    \/ RenderFrame

\* the callback keeps being called while the stream runs
SpecNotes == NotesInit /\ [][NotesNext]_vars /\ WF_vars(RenderFrame)

NoKeysHeld == \A n \in Notes : held[n] = 0

AllInactive == \A i \in 1..Len(voices) : ~voices[i].active

ReleaseNext ==
    \/ \E n \in Notes, v \in Velocities : NoteOn(n, v) /\ UNCHANGED held
    \/ \E n \in Notes : NoteOff(n) /\ UNCHANGED held
    \/ RenderFrame
    \/ \E c \in SharedConfigs : SetShared(c) /\ UNCHANGED held

\* the callback keeps being called while the stream runs
SpecRelease == PoolInit /\ [][ReleaseNext]_vars /\ WF_vars(RenderFrame)

\* voice i is sounding its release
Releasing(i) == voices[i].active /\ voices[i].adsr.state = "release"

\* voice i has finished: envelope idle, voice inactive
Finished(i) == ~voices[i].active /\ voices[i].adsr.state = "idle"

\* voice i has been given a new note
Retriggered(i) == voices[i].adsr.state \in {"attack", "decay", "sustain"}

\* bound of the model: some sounding voice has its elapsed-sample counter at
\* MaxElapsed
AtElapsedBound ==
    \E j \in 1..Len(voices) : voices[j].active /\ ~CanProcess(voices[j].adsr, 1)

\* from some point on nothing but callbacks happens
OnlyRenders == poolLast.op = "render"

\* C28: a voice released by note_off, with callbacks running and no new note
\* given to it, ends with its envelope idle and the voice inactive, whatever
\* the enable and bypass flags of the chain (envelope stage disabled or
\* bypassed included) and whatever the input source
C28_ReleasedVoiceFinishes ==
    (<>[]OnlyRenders) =>
        \A i \in 1..MaxVoices :
            Releasing(i) ~> (Finished(i) \/ Retriggered(i) \/ AtElapsedBound)

=============================================================================
